---- MODULE Spec2Model ----
(***************************************************************************)
(* Data-dictionary curation scripts: the structural differ of              *)
(* compare_configs.py / convert_to_dd_v2.1.py and the category-tree editor *)
(* of categorized_visualizer.py.                                           *)
(*                                                                         *)
(* JSON values are tagged records [t, v]; a mapping's v is a function from *)
(* its keys, a list's v a sequence.  Python's == is PyEq, not TLA+'s =:    *)
(* True == 1 holds in Python, so Bool(TRUE) and Num(1) are PyEq.           *)
(***************************************************************************)
EXTENDS Integers, Sequences, FiniteSets, TLC

VARIABLES
    dict1, dict2,   \* the two attribute records handed to the differ
    call,           \* the differ call made last, with what it returned
    tree, args,     \* move_attribute: the tree and argument tuple of a call
    once, twice,    \* move_attribute: the tree after one call, after two
    data,           \* st.session_state.data, the editor's current tree
    original_data,  \* st.session_state.original_data, the snapshot
    last,           \* the editor operation performed last
    request,        \* the editor: what the widgets held when the button was pressed
    current_file,   \* st.session_state.current_file, the file of the session tree
    load_modified,  \* the "Load Modified Version" checkbox
    modified_files, \* Client/categorized/modified: the saved version of each file
    categorized_data,       \* a categorized export, as json.load returns it
    attribute_to_category,  \* the mapping handed to update_dd_file
    dd_data,                \* a data dictionary, as json.load returns it
    returned,               \* what the function called last returned and printed
    script,         \* the batch script that is running
    disk,           \* the JSON files of Client, Product, Client/DD v2.1, Client/categorized
    writes,         \* the files the run has opened for writing
    position,       \* how many files of the batch the loop has been through
    processed,      \* processed / processed_files
    skipped,        \* skipped
    replies,        \* what the provider or the user answered for the file processed last
    idx,            \* process_file: the attributes of the file the loop has been through
    calls           \* the provider calls issued since the last time.sleep(60)

vars == <<dict1, dict2, call, tree, args, once, twice, data, original_data, last,
          request, current_file, load_modified, modified_files,
          categorized_data, attribute_to_category, dd_data, returned,
          script, disk, writes, position, processed, skipped, replies, idx, calls>>

diffVars == <<dict1, dict2, call>>
moveVars == <<tree, args, once, twice>>
callVars == <<categorized_data, attribute_to_category, dd_data, returned>>
rateVars == <<idx, calls>>
batchVars == <<script, disk, writes, position, processed, skipped, replies, rateVars>>
scriptVars == <<callVars, batchVars>>
fileVars == <<current_file, load_modified, modified_files>>
editVars == <<data, original_data, last, request, current_file, load_modified,
              modified_files>>

NotCalled == [fn |-> "none"]

(***************************************************************************)
(* Bounds                                                                  *)
(***************************************************************************)
\* longest list value in an attribute record
MaxListLen == 1

(***************************************************************************)
(* JSON values                                                             *)
(***************************************************************************)
Str(s) == [t |-> "str", v |-> s]
Num(n) == [t |-> "num", v |-> n]
Bool(b) == [t |-> "bool", v |-> b]
List(q) == [t |-> "list", v |-> q]
Dict(f) == [t |-> "dict", v |-> f]

IsDict(x) == x.t = "dict"
IsList(x) == x.t = "list"

\* bool is a subclass of int: True == 1, False == 0
AsNumber(x) == IF x.t = "bool" THEN (IF x.v THEN 1 ELSE 0) ELSE x.v

RECURSIVE PyEq(_, _)
PyEq(a, b) ==
    CASE a.t \in {"num", "bool"} /\ b.t \in {"num", "bool"} ->
            AsNumber(a) = AsNumber(b)
      [] a.t = "str" /\ b.t = "str" -> a.v = b.v
      [] a.t = "null" /\ b.t = "null" -> TRUE
      [] a.t = "list" /\ b.t = "list" ->
            /\ Len(a.v) = Len(b.v)
            /\ \A i \in 1..Len(a.v) : PyEq(a.v[i], b.v[i])
      [] a.t = "dict" /\ b.t = "dict" ->
            /\ DOMAIN a.v = DOMAIN b.v
            /\ \A k \in DOMAIN a.v : PyEq(a.v[k], b.v[k])
      [] OTHER -> FALSE

ExcludedKey == "dashboard_identifier"

ListElems == {Num(1)}
Lists == UNION {[1..n -> ListElems] : n \in 0..MaxListLen}

CaptionValues == {Str("Host Name"), Num(1), Bool(TRUE)} \cup {List(q) : q \in Lists}
DetailValues == {Num(1), Dict("VRA" :> Num(1)), Dict("VRA" :> Num(2)),
                 Dict(("VRA" :> Num(1)) @@ (ExcludedKey :> Num(2)))}
IdentifierValues == {Dict("VRA" :> Num(1)), Dict("VRA" :> Num(2))}

EmptyDict == [k \in {} |-> k]

Present(key, values) == {EmptyDict} \cup {key :> x : x \in values}

\* attribute records: {"caption": ..., "details": ..., "dashboard_identifier": ...}
Records ==
    {Dict(c @@ d @@ i) : c \in Present("caption", CaptionValues),
                         d \in Present("details", DetailValues),
                         i \in Present(ExcludedKey, IdentifierValues)}

\* what a caller may hand to the differ: records, and values that are no mapping
Values == Records \cup {Num(1), Str("Host Name")}

(***************************************************************************)
(* compare_configs.py: deep_compare_dicts                                  *)
(***************************************************************************)
Restrict(f, keys) == [k \in keys |-> f[k]]

\* mutants: the comprehension without its "if k != 'dashboard_identifier'"
dict1_unfiltered(d) == d.v
dict2_unfiltered(d) == d.v

\* {k: v for k, v in dict1.items() if k != 'dashboard_identifier'}
dict1_filtered(d) == Restrict(d.v, DOMAIN d.v \ {ExcludedKey})

\* {k: v for k, v in dict2.items() if k != 'dashboard_identifier'}
dict2_filtered(d) == Restrict(d.v, DOMAIN d.v \ {ExcludedKey})

\* mutant: the key sets tested with <= where the code has !=
RECURSIVE deep_compare_dicts_subset(_, _)
deep_compare_dicts_subset(d1, d2) ==
    IF ~IsDict(d1) \/ ~IsDict(d2) THEN PyEq(d1, d2)
    ELSE LET f1 == Restrict(d1.v, DOMAIN d1.v \ {ExcludedKey})
             f2 == Restrict(d2.v, DOMAIN d2.v \ {ExcludedKey})
         IN  IF ~(DOMAIN f1 \subseteq DOMAIN f2) THEN FALSE
             ELSE \A key \in DOMAIN f1 :
                    IF IsDict(f1[key]) /\ IsDict(f2[key])
                      THEN deep_compare_dicts_subset(f1[key], f2[key])
                      ELSE PyEq(f1[key], f2[key])

RECURSIVE deep_compare_dicts(_, _)
deep_compare_dicts(d1, d2) ==
    IF ~IsDict(d1) \/ ~IsDict(d2) THEN PyEq(d1, d2)
    ELSE LET f1 == dict1_filtered(d1)
             f2 == dict2_filtered(d2)
         IN  IF DOMAIN f1 # DOMAIN f2 THEN FALSE
             ELSE \A key \in DOMAIN f1 :
                    LET val1 == f1[key]
                        val2 == f2[key]
                    IN  IF IsDict(val1) /\ IsDict(val2)
                          THEN deep_compare_dicts(val1, val2)
                        ELSE IF IsList(val1) /\ IsList(val2)
                          THEN PyEq(val1, val2)
                        ELSE PyEq(val1, val2)

(***************************************************************************)
(* compare_configs.py: find_dict_differences                               *)
(*                                                                         *)
(* all_keys is a Python set of strings and "for key in all_keys" walks it  *)
(* in hash order; str hashes are salted per interpreter start, so the      *)
(* order is an input of the call: a permutation of the key names.          *)
(***************************************************************************)
KeyNames == {"caption", "details", "VRA"}
KeyOrders == {o \in [1..Cardinality(KeyNames) -> KeyNames] :
                \A i, j \in DOMAIN o : i # j => o[i] # o[j]}

\* the keys of a set in the order the interpreter iterates them
Iterate(keys, order) == SelectSeq(order, LAMBDA k : k \in keys)

NoValue == [t |-> "absent"]

\* one difference description; the f-string's parts kept apart
Difference(path, kind, client, product) ==
    [path |-> path, kind |-> kind, client |-> client, product |-> product]

\* mutant: f"{path}.{key}" without its "if path else key"
current_path_always_joined(path, key) == path \o "." \o key

\* f"{path}.{key}" if path else key
current_path(path, key) == IF path # "" THEN path \o "." \o key ELSE key

RECURSIVE find_dict_differences(_, _, _, _)
RECURSIVE differences_loop(_, _, _, _, _)

\* the body of "for key in all_keys", over the keys still to visit
differences_loop(f1, f2, path, keys, order) ==
    IF keys = <<>> THEN <<>>
    ELSE LET key == Head(keys)
             cp == current_path(path, key)
             found ==
               IF key \notin DOMAIN f1
                 THEN <<Difference(cp, "Missing in Client", NoValue, f2[key])>>
               ELSE IF key \notin DOMAIN f2
                 THEN <<Difference(cp, "Missing in Product", f1[key], NoValue)>>
               ELSE LET val1 == f1[key]
                        val2 == f2[key]
                    IN  IF IsDict(val1) /\ IsDict(val2)
                          THEN find_dict_differences(val1, val2, cp, order)
                        ELSE IF IsList(val1) /\ IsList(val2)
                          THEN IF ~PyEq(val1, val2)
                                 THEN <<Difference(cp, "Lists differ", val1, val2)>>
                                 ELSE <<>>
                        ELSE IF ~PyEq(val1, val2)
                               THEN <<Difference(cp, "vs", val1, val2)>>
                               ELSE <<>>
         IN  found \o differences_loop(f1, f2, path, Tail(keys), order)

find_dict_differences(d1, d2, path, order) ==
    IF ~IsDict(d1) \/ ~IsDict(d2)
      THEN IF ~PyEq(d1, d2) THEN <<Difference(path, "vs", d1, d2)>> ELSE <<>>
    ELSE LET f1 == dict1_filtered(d1)
             f2 == dict2_filtered(d2)
             all_keys == DOMAIN f1 \cup DOMAIN f2
         IN  differences_loop(f1, f2, path, Iterate(all_keys, order), order)

(***************************************************************************)
(* compare_configs.py: get_common_attributes                               *)
(***************************************************************************)
AttrNames == {"host_name", "os_version"}

\* {attr_name: (client_attr, product_attr, is_exact_match, differences)}
get_common_attributes(client_attrs, product_attrs, order) ==
    IF DOMAIN client_attrs = {} \/ DOMAIN product_attrs = {} THEN EmptyDict
    ELSE LET common_attr_names == DOMAIN client_attrs \cap DOMAIN product_attrs
         IN  [attr_name \in common_attr_names |->
                LET client_attr == client_attrs[attr_name]
                    product_attr == product_attrs[attr_name]
                    is_exact_match == deep_compare_dicts(client_attr, product_attr)
                    differences ==
                        IF ~is_exact_match
                          THEN find_dict_differences(client_attr, product_attr,
                                                     attr_name, order)
                          ELSE <<>>
                IN  <<client_attr, product_attr, is_exact_match, differences>>]

(***************************************************************************)
(* The differ's callers.  A call leaves its argument objects as            *)
(* ..._inputs says: the filtered mappings are new objects built by dict    *)
(* comprehensions, and nothing is assigned into dict1 or dict2.            *)
(***************************************************************************)
\* mutant: the excluded key popped from the arguments themselves
inputs_filtered_in_place(d1, d2) ==
    <<IF IsDict(d1) THEN Dict(Restrict(d1.v, DOMAIN d1.v \ {ExcludedKey})) ELSE d1,
      IF IsDict(d2) THEN Dict(Restrict(d2.v, DOMAIN d2.v \ {ExcludedKey})) ELSE d2>>

deep_compare_dicts_inputs(d1, d2) == <<d1, d2>>
find_dict_differences_inputs(d1, d2) == <<d1, d2>>

CallDeepCompare ==
    /\ call = NotCalled
    /\ call' = [fn |-> "deep_compare_dicts",
                result |-> deep_compare_dicts(dict1, dict2)]
    /\ dict1' = deep_compare_dicts_inputs(dict1, dict2)[1]
    /\ dict2' = deep_compare_dicts_inputs(dict1, dict2)[2]
    /\ UNCHANGED <<moveVars, editVars, scriptVars>>

CallFindDifferences ==
    \E order \in KeyOrders :
        /\ call.fn \in {"none", "find_dict_differences"}
        /\ call' = [fn |-> "find_dict_differences",
                    result |-> find_dict_differences(dict1, dict2, "", order)]
        /\ dict1' = find_dict_differences_inputs(dict1, dict2)[1]
        /\ dict2' = find_dict_differences_inputs(dict1, dict2)[2]
    /\ UNCHANGED <<moveVars, editVars, scriptVars>>

\* the configs hold the records under the names cn (Client) and pn (Product)
CallGetCommonAttributes ==
    \E cn \in SUBSET AttrNames, pn \in SUBSET AttrNames, order \in KeyOrders :
        /\ call = NotCalled
        /\ call' = [fn |-> "get_common_attributes",
                    result |-> get_common_attributes([n \in cn |-> dict1],
                                                     [n \in pn |-> dict2], order)]
        /\ UNCHANGED <<dict1, dict2>>
    /\ UNCHANGED <<moveVars, editVars, scriptVars>>

NextDiff ==
    \/ CallDeepCompare
    \/ CallFindDifferences
    \/ CallGetCommonAttributes

(***************************************************************************)
(* categorized_visualizer.py: the category tree                            *)
(*   { EntityName: { SectionName: { CategoryName: [attrName, ...] } } }    *)
(* A mapping is a function from its keys, an attribute list a sequence.    *)
(***************************************************************************)
EntityName == "Host"
Sections == {"common", "entity_specific"}
Categories == {"identity", "os_info"}
Attributes == {"os_version", "host_name"}

Range(q) == {q[i] : i \in DOMAIN q}

\* attribute lists, as long as there are attribute names
AnyLists == UNION {[1..n -> Attributes] : n \in 0..Cardinality(Attributes)}

\* a list that names no attribute twice
Unique(q) == \A i, j \in DOMAIN q : i # j => q[i] # q[j]

AttrLists == {q \in AnyLists : Unique(q)}

SectionDicts(lists) == UNION {[c -> lists] : c \in SUBSET Categories}
EntityDicts(lists) == UNION {[s -> SectionDicts(lists)] : s \in SUBSET Sections}

\* every tree of one entity whose categories hold attribute lists from `lists`
Trees(lists) == {EntityName :> e : e \in EntityDicts(lists)}

\* d[k] = v
DictSet(d, k, v) == [x \in DOMAIN d \cup {k} |-> IF x = k THEN v ELSE d[x]]
\* del d[k]
DictDel(d, k) == Restrict(d, DOMAIN d \ {k})

\* list.remove(x): drops the first occurrence
ListRemove(q, x) ==
    LET i == CHOOSE n \in DOMAIN q : q[n] = x /\ \A m \in 1..(n - 1) : q[m] # x
    IN  SubSeq(q, 1, i - 1) \o SubSeq(q, i + 1, Len(q))

\* list(data.keys())[0]; a categorized export holds one entity
entity_name_of(d) == CHOOSE e \in DOMAIN d : TRUE

(***************************************************************************)
(* categorized_visualizer.py: move_attribute                               *)
(***************************************************************************)
\* mutant: the removal without its "Remove empty category"
remove_from_old_location_keep_empty(entity_data, attribute_name, from_section, from_category) ==
    IF /\ from_section \in DOMAIN entity_data
       /\ from_category \in DOMAIN entity_data[from_section]
       /\ attribute_name \in Range(entity_data[from_section][from_category])
      THEN DictSet(entity_data, from_section,
                   DictSet(entity_data[from_section], from_category,
                           ListRemove(entity_data[from_section][from_category],
                                      attribute_name)))
      ELSE entity_data

\* mutant: the removal with its "del" of the category not under "if not ..."
remove_from_old_location_drop_category(entity_data, attribute_name, from_section, from_category) ==
    IF /\ from_section \in DOMAIN entity_data
       /\ from_category \in DOMAIN entity_data[from_section]
       /\ attribute_name \in Range(entity_data[from_section][from_category])
      THEN DictSet(entity_data, from_section,
                   DictDel(entity_data[from_section], from_category))
      ELSE entity_data

\* "Remove from old location"
remove_from_old_location(entity_data, attribute_name, from_section, from_category) ==
    IF /\ from_section \in DOMAIN entity_data
       /\ from_category \in DOMAIN entity_data[from_section]
       /\ attribute_name \in Range(entity_data[from_section][from_category])
      THEN LET rest == ListRemove(entity_data[from_section][from_category], attribute_name)
           IN  IF rest = <<>>
                 THEN DictSet(entity_data, from_section,
                              DictDel(entity_data[from_section], from_category))
                 ELSE DictSet(entity_data, from_section,
                              DictSet(entity_data[from_section], from_category, rest))
      ELSE entity_data

\* mutant: the append without its "if attribute_name not in" test
add_to_new_location_always(entity_data, attribute_name, to_section, to_category) ==
    LET sec == IF to_section \in DOMAIN entity_data
                 THEN entity_data[to_section] ELSE EmptyDict
        attrs == IF to_category \in DOMAIN sec THEN sec[to_category] ELSE <<>>
    IN  DictSet(entity_data, to_section,
                DictSet(sec, to_category, Append(attrs, attribute_name)))

\* "Add to new location"
add_to_new_location(entity_data, attribute_name, to_section, to_category) ==
    LET with_section == IF to_section \notin DOMAIN entity_data
                          THEN DictSet(entity_data, to_section, EmptyDict)
                          ELSE entity_data
        with_category == IF to_category \notin DOMAIN with_section[to_section]
                           THEN DictSet(with_section, to_section,
                                        DictSet(with_section[to_section], to_category, <<>>))
                           ELSE with_section
        attrs == with_category[to_section][to_category]
    IN  IF attribute_name \notin Range(attrs)
          THEN DictSet(with_category, to_section,
                       DictSet(with_category[to_section], to_category,
                               Append(attrs, attribute_name)))
          ELSE with_category

move_attribute(d, attribute_name, from_section, from_category, to_section, to_category) ==
    LET entity_name == entity_name_of(d)
        removed == remove_from_old_location(d[entity_name], attribute_name,
                                            from_section, from_category)
    IN  DictSet(d, entity_name,
                add_to_new_location(removed, attribute_name, to_section, to_category))

\* move_attribute on an argument tuple
Move(d, a) == move_attribute(d, a.attribute_name, a.from_section, a.from_category,
                             a.to_section, a.to_category)

ArgTuples == [attribute_name : Attributes,
              from_section : Sections, from_category : Categories,
              to_section : Sections, to_category : Categories]

NoTree == [none |-> TRUE]

\* move_attribute(tree, *args)
CallMove ==
    /\ once = NoTree
    /\ \E a \in ArgTuples :
         /\ args' = a
         /\ once' = Move(tree, a)
    /\ UNCHANGED <<tree, twice>>
    /\ UNCHANGED <<diffVars, editVars, scriptVars>>

\* the same call again, on the tree the first call returned
CallMoveAgain ==
    /\ once # NoTree
    /\ twice = NoTree
    /\ twice' = Move(once, args)
    /\ UNCHANGED <<tree, args, once>>
    /\ UNCHANGED <<diffVars, editVars, scriptVars>>

NextMove ==
    \/ CallMove
    \/ CallMoveAgain

(***************************************************************************)
(* categorized_visualizer.py: main, the editing session                    *)
(*                                                                         *)
(* One action is one script run with one button pressed.  The category     *)
(* being edited and the destination of a move are what the selectboxes     *)
(* offer: a section of the tree and a category of that section.  Text      *)
(* inputs hold any name, or nothing.                                       *)
(*                                                                         *)
(* Not modelled: "Confirm Move" into a section that holds no category.     *)
(* The "To Category" selectbox then has no option and yields None, and     *)
(* move_attribute files the attribute under the key None; ConfirmMove      *)
(* covers the moves whose destination category was chosen from the list.   *)
(***************************************************************************)
NonEmptyLists == AttrLists \ {<<>>}

\* the widgets of one run: the category selected in the sidebar, the text
\* input or the attribute of the pressed button, the destination of a move
Request(op, section_name, category_name, name, move_section, move_category) ==
    [op |-> op, section_name |-> section_name, category_name |-> category_name,
     name |-> name, move_section |-> move_section, move_category |-> move_category]

NoRequest == Request("none", "", "", "", "", "")

\* the JSON documents of Client/categorized
Documents ==
    {d \in Trees(NonEmptyLists) : DOMAIN d[EntityName] = {"common"}}
    \cup {EntityName :> (("common" :> ("identity" :> <<"os_version", "host_name">>))
                         @@ ("entity_specific" :> ("os_info" :> <<"host_name">>))),
          EntityName :> (("common" :> ("identity" :> <<"os_version">>))
                         @@ ("entity_specific" :> EmptyDict)),
          EntityName :> ("common" :> (("identity" :> <<"os_version", "host_name">>)
                                      @@ ("network" :> <<"host_name">>)))}

\* the tree with entity_data[section_name] replaced
WithSection(d, section_name, section) ==
    DictSet(d, entity_name_of(d), DictSet(d[entity_name_of(d)], section_name, section))

\* the "section > category" paths of the category selector
all_categories(d) ==
    UNION {{<<s, c>> : c \in DOMAIN d[entity_name_of(d)][s]} :
           s \in DOMAIN d[entity_name_of(d)]}

\* what the text inputs for a category name may hold: a name or nothing
RenameInputs == Categories \cup {""}

\* mutant: the removal without its "if not ...: del" of the emptied category
DeleteAttribute_keep_empty ==
    /\ \E p \in all_categories(data) :
         LET section == data[entity_name_of(data)][p[1]]
         IN  \E attr \in Range(section[p[2]]) :
               /\ data' = WithSection(data, p[1],
                                      DictSet(section, p[2], ListRemove(section[p[2]], attr)))
               /\ last' = "delete"
               /\ request' = Request("delete", p[1], p[2], attr, "", "")
               /\ UNCHANGED original_data
    /\ UNCHANGED <<diffVars, moveVars, fileVars, scriptVars>>

\* mutant: the removal with its "del" of the category not under "if not ..."
DeleteAttribute_drop_category ==
    /\ \E p \in all_categories(data) :
         LET section == data[entity_name_of(data)][p[1]]
         IN  \E attr \in Range(section[p[2]]) :
               /\ data' = WithSection(data, p[1], DictDel(section, p[2]))
               /\ last' = "delete"
               /\ request' = Request("delete", p[1], p[2], attr, "", "")
               /\ UNCHANGED original_data
    /\ UNCHANGED <<diffVars, moveVars, fileVars, scriptVars>>

\* "Delete" next to an attribute: "Handle attribute removal"
DeleteAttribute ==
    \E p \in all_categories(data) :
      LET section_name == p[1]
          category_name == p[2]
          section == data[entity_name_of(data)][section_name]
      IN  \E attr \in Range(section[category_name]) :
            LET rest == ListRemove(section[category_name], attr)
            IN  /\ data' = WithSection(data, section_name,
                               IF rest = <<>> THEN DictDel(section, category_name)
                               ELSE DictSet(section, category_name, rest))
                /\ last' = "delete"
                /\ request' = Request("delete", section_name, category_name, attr, "", "")
                /\ UNCHANGED original_data
    /\ UNCHANGED <<diffVars, moveVars, fileVars, scriptVars>>

\* "Move" next to an attribute, then "Confirm Move"
ConfirmMove ==
    \E p \in all_categories(data) :
      LET section_name == p[1]
          category_name == p[2]
          entity_data == data[entity_name_of(data)]
      IN  \E attr \in Range(entity_data[section_name][category_name]),
             move_section \in DOMAIN entity_data :
            \E move_category \in DOMAIN entity_data[move_section] :
                /\ data' = move_attribute(data, attr, section_name, category_name,
                                          move_section, move_category)
                /\ last' = "move"
                /\ request' = Request("move", section_name, category_name, attr,
                                       move_section, move_category)
                /\ UNCHANGED original_data
    /\ UNCHANGED <<diffVars, moveVars, fileVars, scriptVars>>

\* mutant: the append made to a copy of the list, list(attributes)
AddAttribute_to_copy ==
    /\ \E p \in all_categories(data), new_attr \in Attributes :
         /\ new_attr \notin Range(data[entity_name_of(data)][p[1]][p[2]])
         /\ data' = data
         /\ last' = "add"
         /\ request' = Request("add", p[1], p[2], new_attr, "", "")
         /\ UNCHANGED original_data
    /\ UNCHANGED <<diffVars, moveVars, fileVars, scriptVars>>

\* mutant: the append without its "new_attr not in attributes" test
AddAttribute_unchecked ==
    /\ \E p \in all_categories(data), new_attr \in Attributes :
         LET section == data[entity_name_of(data)][p[1]]
         IN  /\ data' = WithSection(data, p[1],
                                    DictSet(section, p[2], Append(section[p[2]], new_attr)))
             /\ last' = "add"
             /\ request' = Request("add", p[1], p[2], new_attr, "", "")
             /\ UNCHANGED original_data
    /\ UNCHANGED <<diffVars, moveVars, fileVars, scriptVars>>

\* mutant: a session whose original_data is the object of data, not a deep
\* copy of it, so that the append is made to the snapshot too
AddAttribute_snapshot_shared ==
    \E p \in all_categories(data), new_attr \in Attributes \cup {""} :
      LET section_name == p[1]
          category_name == p[2]
          section == data[entity_name_of(data)][section_name]
          attributes == section[category_name]
      IN  /\ IF new_attr # "" /\ new_attr \notin Range(attributes)
               THEN /\ data' = WithSection(data, section_name,
                                   DictSet(section, category_name,
                                           Append(attributes, new_attr)))
                    /\ last' = "add"
                    /\ request' = Request("add", section_name, category_name, new_attr, "", "")
               ELSE IF new_attr \in Range(attributes)
                      THEN /\ data' = data
                           /\ last' = "add: already exists"
                           /\ request' = Request("add", section_name, category_name,
                                                  new_attr, "", "")
                      ELSE UNCHANGED <<data, last, request>>
          /\ original_data' = data'
    /\ UNCHANGED <<diffVars, moveVars, fileVars, scriptVars>>

\* "Add Attribute"
AddAttribute ==
    \E p \in all_categories(data), new_attr \in Attributes \cup {""} :
      LET section_name == p[1]
          category_name == p[2]
          section == data[entity_name_of(data)][section_name]
          attributes == section[category_name]
      IN  /\ IF new_attr # "" /\ new_attr \notin Range(attributes)
               THEN /\ data' = WithSection(data, section_name,
                                   DictSet(section, category_name,
                                           Append(attributes, new_attr)))
                    /\ last' = "add"
                    /\ request' = Request("add", section_name, category_name, new_attr, "", "")
               ELSE IF new_attr \in Range(attributes)
                      THEN /\ data' = data
                           /\ last' = "add: already exists"
                           /\ request' = Request("add", section_name, category_name,
                                                  new_attr, "", "")
                      ELSE UNCHANGED <<data, last, request>>
          /\ UNCHANGED original_data
    /\ UNCHANGED <<diffVars, moveVars, fileVars, scriptVars>>

\* mutant: the rename without its "new_category_name not in ..." test
RenameCategory_overwrite ==
    /\ \E p \in all_categories(data) : \E new_category_name \in RenameInputs \ {p[2], ""} :
         LET section == data[entity_name_of(data)][p[1]]
         IN  /\ data' = WithSection(data, p[1],
                                    DictDel(DictSet(section, new_category_name, section[p[2]]),
                                            p[2]))
             /\ last' = "rename"
             /\ request' = Request("rename", p[1], p[2], new_category_name, "", "")
             /\ UNCHANGED original_data
    /\ UNCHANGED <<diffVars, moveVars, fileVars, scriptVars>>

\* mutant: the rename without its "del" of the old key
RenameCategory_keep_old ==
    /\ \E p \in all_categories(data) : \E new_category_name \in RenameInputs \ {p[2], ""} :
         LET section == data[entity_name_of(data)][p[1]]
         IN  /\ IF new_category_name \notin DOMAIN section
                   THEN /\ data' = WithSection(data, p[1],
                                       DictSet(section, new_category_name, section[p[2]]))
                        /\ last' = "rename"
                   ELSE /\ data' = data
                        /\ last' = "rename: already exists"
             /\ request' = Request("rename", p[1], p[2], new_category_name, "", "")
             /\ UNCHANGED original_data
    /\ UNCHANGED <<diffVars, moveVars, fileVars, scriptVars>>

\* "Rename"
RenameCategory ==
    \E p \in all_categories(data), new_category_name \in RenameInputs :
      LET section_name == p[1]
          category_name == p[2]
          section == data[entity_name_of(data)][section_name]
      IN  /\ IF new_category_name # "" /\ new_category_name # category_name
               THEN IF new_category_name \notin DOMAIN section
                      THEN /\ data' = WithSection(data, section_name,
                                          DictDel(DictSet(section, new_category_name,
                                                          section[category_name]),
                                                  category_name))
                           /\ last' = "rename"
                           /\ request' = Request("rename", section_name, category_name,
                                                  new_category_name, "", "")
                      ELSE /\ data' = data
                           /\ last' = "rename: already exists"
                           /\ request' = Request("rename", section_name, category_name,
                                                  new_category_name, "", "")
               ELSE UNCHANGED <<data, last, request>>
          /\ UNCHANGED original_data
    /\ UNCHANGED <<diffVars, moveVars, fileVars, scriptVars>>

\* mutant: the creation without its "new_cat_name not in ..." test
CreateCategory_overwrite ==
    /\ \E p \in all_categories(data), new_cat_name \in Categories :
         LET section == data[entity_name_of(data)][p[1]]
         IN  /\ data' = WithSection(data, p[1], DictSet(section, new_cat_name, <<>>))
             /\ last' = "create"
             /\ request' = Request("create", p[1], p[2], new_cat_name, "", "")
             /\ UNCHANGED original_data
    /\ UNCHANGED <<diffVars, moveVars, fileVars, scriptVars>>

\* "Create"
CreateCategory ==
    \E p \in all_categories(data), new_cat_name \in Categories \cup {""} :
      LET section_name == p[1]
          section == data[entity_name_of(data)][section_name]
      IN  /\ IF new_cat_name # ""
               THEN IF new_cat_name \notin DOMAIN section
                      THEN /\ data' = WithSection(data, section_name,
                                          DictSet(section, new_cat_name, <<>>))
                           /\ last' = "create"
                           /\ request' = Request("create", section_name, p[2],
                                                  new_cat_name, "", "")
                      ELSE /\ data' = data
                           /\ last' = "create: already exists"
                           /\ request' = Request("create", section_name, p[2],
                                                  new_cat_name, "", "")
               ELSE UNCHANGED <<data, last, request>>
          /\ UNCHANGED original_data
    /\ UNCHANGED <<diffVars, moveVars, fileVars, scriptVars>>

\* mutant: the copy made the other way, the snapshot taken from the tree
Revert_snapshot_from_data ==
    /\ original_data' = data
    /\ last' = "revert"
    /\ request' = NoRequest
    /\ UNCHANGED data
    /\ UNCHANGED <<diffVars, moveVars, fileVars, scriptVars>>

\* "Revert to Original": json.loads(json.dumps(original_data))
Revert ==
    /\ data' = original_data
    /\ last' = "revert"
    /\ request' = NoRequest
    /\ UNCHANGED original_data
    /\ UNCHANGED <<diffVars, moveVars, fileVars, scriptVars>>

(***************************************************************************)
(* categorized_visualizer.py: main, the files of a session                 *)
(*                                                                         *)
(* Client/categorized holds the original files, which the editor only      *)
(* reads; Client/categorized/modified holds what "Save to Modified" wrote. *)
(* Every run loads the selected file, its modified version when that       *)
(* exists and the checkbox is ticked, into the local variable "data"; the  *)
(* session state takes it only when the session has no tree yet or the     *)
(* selected file is not st.session_state.current_file.                     *)
(***************************************************************************)
JsonFiles == {"Host.json", "Server.json"}

OriginalFiles ==
    ("Host.json" :> (EntityName :> ("common" :> ("identity" :> <<"os_version">>))))
    @@ ("Server.json" :> (EntityName :> ("common" :> ("identity" :> <<"host_name">>))))

\* a modified version left by an earlier session
SavedEarlier == EntityName :> ("common" :> ("identity" :> <<"os_version", "host_name">>))

has_modified(files, selected_file) == files[selected_file] # NoTree

\* what load_json_file returns to the local variable "data" of a run
LoadData(files, selected_file, checkbox) ==
    IF has_modified(files, selected_file) /\ checkbox
      THEN files[selected_file]
      ELSE OriginalFiles[selected_file]

\* the value of the checkbox in a run: a widget that the run before did not
\* show starts from its default, value=False
Checkbox(files, selected_file, checkbox) ==
    has_modified(files, selected_file) /\ checkbox

\* another file chosen in "Select File"
SelectFile ==
    /\ \E selected_file \in JsonFiles \ {current_file} :
         LET checkbox == Checkbox(modified_files, current_file, load_modified)
         IN  /\ data' = LoadData(modified_files, selected_file, checkbox)
             /\ original_data' = LoadData(modified_files, selected_file, checkbox)
             /\ current_file' = selected_file
             /\ load_modified' = Checkbox(modified_files, selected_file, checkbox)
    /\ last' = "select file"
    /\ request' = NoRequest
    /\ UNCHANGED modified_files
    /\ UNCHANGED <<diffVars, moveVars, scriptVars>>

\* "Load Modified Version" ticked or unticked: the run loads the other
\* version into "data", and current_file is still the selected file
ToggleLoadModified ==
    /\ has_modified(modified_files, current_file)
    /\ load_modified' = ~load_modified
    /\ last' = "load version"
    /\ request' = NoRequest
    /\ UNCHANGED <<data, original_data, current_file, modified_files>>
    /\ UNCHANGED <<diffVars, moveVars, scriptVars>>

\* "Save to Modified": save_json_file(modified_path, st.session_state.data)
SaveToModified ==
    /\ \/ /\ modified_files' = DictSet(modified_files, current_file, data)
          /\ last' = "save"
       \/ /\ UNCHANGED modified_files
          /\ last' = "save: error"
    /\ request' = NoRequest
    /\ UNCHANGED <<data, original_data, current_file, load_modified>>
    /\ UNCHANGED <<diffVars, moveVars, scriptVars>>

(***************************************************************************)
(* categorized_visualizer.py: save_json_file, write by write.  The same    *)
(* open(file_path, 'w') and json.dump are the save_json of the batch       *)
(* scripts, which do not catch what they raise.                            *)
(***************************************************************************)
\* the strings json.dump writes for a tree: its names, one after the other
json_size(d) ==
    1 + Cardinality(DOMAIN d[entity_name_of(d)]) + Cardinality(all_categories(d))
      + Cardinality({<<p, i>> \in all_categories(d) \X (1..3) :
                       i <= Len(d[entity_name_of(d)][p[1]][p[2]])})

\* a file that open(..., 'w') emptied and json.dump wrote so many strings to
Truncated(written) == [truncated |-> written]

IsTruncated(content) == DOMAIN content = {"truncated"}

\* with open(file_path, 'w', encoding='utf-8') as f: the file is emptied, or
\* open raises and the file is as it was
SaveOpen ==
    /\ last = "load"
    /\ \/ /\ modified_files' = DictSet(modified_files, current_file, Truncated(0))
          /\ last' = "save: open"
       \/ /\ UNCHANGED modified_files
          /\ last' = "save: error"
    /\ UNCHANGED <<data, original_data, request, current_file, load_modified>>
    /\ UNCHANGED <<diffVars, moveVars, scriptVars>>

\* json.dump(data, f, ...): the next string is written, or the write raises
\* (the disk is full, the process is stopped) and the file is closed as it is
SaveDump ==
    /\ last \in {"save: open", "save: dump"}
    /\ modified_files[current_file].truncated < json_size(data)
    /\ \/ /\ modified_files' =
                DictSet(modified_files, current_file,
                        Truncated(modified_files[current_file].truncated + 1))
          /\ last' = "save: dump"
       \/ /\ UNCHANGED modified_files
          /\ last' = "save: error"
    /\ UNCHANGED <<data, original_data, request, current_file, load_modified>>
    /\ UNCHANGED <<diffVars, moveVars, scriptVars>>

\* the end of the with block after the last string: return True
SaveClose ==
    /\ last \in {"save: open", "save: dump"}
    /\ modified_files[current_file].truncated = json_size(data)
    /\ modified_files' = DictSet(modified_files, current_file, data)
    /\ last' = "save"
    /\ UNCHANGED <<data, original_data, request, current_file, load_modified>>
    /\ UNCHANGED <<diffVars, moveVars, scriptVars>>

NextSave ==
    \/ SaveOpen
    \/ SaveDump
    \/ SaveClose

NextSession ==
    \/ SelectFile
    \/ ToggleLoadModified
    \/ SaveToModified
    \/ Revert
    \/ AddAttribute
    \/ DeleteAttribute
    \/ ConfirmMove
    \/ RenameCategory

NextEdit ==
    \/ DeleteAttribute
    \/ ConfirmMove
    \/ AddAttribute
    \/ RenameCategory
    \/ CreateCategory
    \/ Revert

(***************************************************************************)
(* update_categories_from_categorized.py                                   *)
(*                                                                         *)
(* json.load returns a JSON object as a dict in document order: here a     *)
(* sequence of <<key, value>> pairs with distinct keys.  The data          *)
(* dictionary, whose order plays no part, is a tagged value as above.      *)
(***************************************************************************)
\* the orders the keys of a set can be written in
Orders(keys) == {o \in [1..Cardinality(keys) -> keys] : Range(o) = keys}

\* the objects with keys from K and values from V, in every document order
Objects(K, V) ==
    UNION {{[i \in DOMAIN o |-> <<o[i], v[i]>>] : v \in [DOMAIN o -> V]} :
           o \in UNION {Orders(S) : S \in SUBSET K}}

\* {entity_name: {group_key: {category: [attribute_names]}}}: one entity with
\* any groups, or two entities with a category of one attribute each
CategorizedDocuments(lists) ==
    {<< <<EntityName, groups>> >> :
       groups \in Objects(Sections, Objects(Categories, lists))}
    \cup {<< <<EntityName, << <<"common", << <<c[1], <<a[1]>> >> >> >> >> >>,
              <<"Server", << <<"common", << <<c[2], <<a[2]>> >> >> >> >> >> >> :
            c \in Categories \X Categories, a \in Attributes \X Attributes}

\* "key in d", d[key] and d[key] = value on a dict in document order
Has(d, key) == \E i \in DOMAIN d : d[i][1] = key

Get(d, key) == d[CHOOSE i \in DOMAIN d : d[i][1] = key][2]

\* mutant: the assignment made only for a name not yet in the mapping
store_category_if_absent(d, attr_name, category) ==
    IF Has(d, attr_name) THEN d ELSE Append(d, <<attr_name, category>>)

\* attribute_to_category[attr_name] = category
store_category(d, attr_name, category) ==
    IF Has(d, attr_name)
      THEN [i \in DOMAIN d |-> IF d[i][1] = attr_name THEN <<attr_name, category>> ELSE d[i]]
      ELSE Append(d, <<attr_name, category>>)

\* "for attr_name in attribute_names", from the i-th name on
RECURSIVE attribute_names_loop(_, _, _, _)
attribute_names_loop(acc, category, attribute_names, i) ==
    IF i > Len(attribute_names) THEN acc
    ELSE LET attr_name == attribute_names[i]
         IN  attribute_names_loop(
               [attribute_to_category |->
                    store_category(acc.attribute_to_category, attr_name, category),
                warnings |->
                    IF Has(acc.attribute_to_category, attr_name)
                      THEN Append(acc.warnings, <<attr_name, category>>)
                      ELSE acc.warnings],
               category, attribute_names, i + 1)

\* "for category, attribute_names in categories.items()"
RECURSIVE categories_loop(_, _, _)
categories_loop(acc, categories, i) ==
    IF i > Len(categories) THEN acc
    ELSE categories_loop(attribute_names_loop(acc, categories[i][1], categories[i][2], 1),
                         categories, i + 1)

\* "for group_key, categories in groups.items()"
RECURSIVE groups_loop(_, _, _)
groups_loop(acc, groups, i) ==
    IF i > Len(groups) THEN acc
    ELSE groups_loop(categories_loop(acc, groups[i][2], 1), groups, i + 1)

\* "for entity_name, groups in categorized_data.items()"
RECURSIVE entities_loop(_, _, _)
entities_loop(acc, entities, i) ==
    IF i > Len(entities) THEN acc
    ELSE entities_loop(groups_loop(acc, entities[i][2], 1), entities, i + 1)

\* the mapping returned and the warnings printed
load_categorized_mapping(categorized) ==
    entities_loop([attribute_to_category |-> <<>>, warnings |-> <<>>], categorized, 1)

CallLoadCategorizedMapping ==
    /\ returned = NotCalled
    /\ returned' = [fn |-> "load_categorized_mapping"] @@
                      load_categorized_mapping(categorized_data)
    /\ UNCHANGED <<categorized_data, attribute_to_category, dd_data>>
    /\ UNCHANGED <<diffVars, moveVars, editVars, batchVars>>

NextMapping ==
    \/ CallLoadCategorizedMapping

\* the attribute records of a data dictionary: a caption, and a category,
\* which may be the empty string, or none
AttrDatas ==
    {Dict("caption" :> Str("Host Name"))}
    \cup {Dict(("caption" :> Str("Host Name")) @@ ("category" :> Str(c))) :
            c \in Categories \cup {""}}

\* the attribute names of the data dictionaries; the exports list Attributes
DDAttributes == Attributes \cup {"ip_address"}

\* the data dictionaries: with an "attributes" key, and one without
DDDocuments ==
    {Dict(("entity" :> Str("Host")) @@ ("attributes" :> Dict(attrs))) :
       attrs \in UNION {[S -> AttrDatas] : S \in SUBSET DDAttributes}}
    \cup {Dict("entity" :> Str("Host"))}

\* the mappings: attributes of the exports under a category or under ""
Mappings == Objects(Attributes, Categories \cup {""})

\* attr_data.get('category', '')
current_category(attr_data) ==
    IF "category" \in DOMAIN attr_data.v THEN attr_data.v["category"] ELSE Str("")

\* mutant: the loop body without the "continue" of the already-set branch
update_entry_no_continue(acc, attr_name, category) ==
    IF attr_name \in DOMAIN acc.attributes
      THEN [acc EXCEPT
              !.attributes = DictSet(@, attr_name,
                                 Dict(DictSet(@[attr_name].v, "category", Str(category)))),
              !.already_set_count =
                  IF PyEq(current_category(acc.attributes[attr_name]), Str(category))
                    THEN @ + 1 ELSE @,
              !.updated_count = @ + 1,
              !.log_messages = Append(@, <<"Updated", attr_name, category>>)]
      ELSE [acc EXCEPT !.not_found_count = @ + 1,
                       !.log_messages = Append(@, <<"WARNING: not found", attr_name>>)]

\* the body of "for attr_name, category in attribute_to_category.items()"
update_entry(acc, attr_name, category) ==
    IF attr_name \in DOMAIN acc.attributes
      THEN LET attr_data == acc.attributes[attr_name]
           IN  IF PyEq(current_category(attr_data), Str(category))
                 THEN [acc EXCEPT !.already_set_count = @ + 1]
                 ELSE [acc EXCEPT
                         !.attributes = DictSet(@, attr_name,
                                            Dict(DictSet(attr_data.v, "category",
                                                         Str(category)))),
                         !.updated_count = @ + 1,
                         !.log_messages = Append(@, <<"Updated", attr_name, category>>)]
      ELSE [acc EXCEPT !.not_found_count = @ + 1,
                       !.log_messages = Append(@, <<"WARNING: not found", attr_name>>)]

RECURSIVE update_loop(_, _, _)
update_loop(acc, mapping, i) ==
    IF i > Len(mapping) THEN acc
    ELSE update_loop(update_entry(acc, mapping[i][1], mapping[i][2]), mapping, i + 1)

\* (dd_data, updated_count, not_found_count, already_set_count) and the
\* messages appended to log_messages
update_dd_file(dd, mapping) ==
    IF "attributes" \notin DOMAIN dd.v
      THEN [dd_data |-> dd, updated_count |-> 0, not_found_count |-> 0,
            already_set_count |-> 0,
            log_messages |-> <<<<"WARNING: No 'attributes' key">>>>]
      ELSE LET acc == update_loop([attributes |-> dd.v["attributes"].v,
                                   updated_count |-> 0, not_found_count |-> 0,
                                   already_set_count |-> 0, log_messages |-> <<>>],
                                  mapping, 1)
           IN  [dd_data |-> Dict(DictSet(dd.v, "attributes", Dict(acc.attributes))),
                updated_count |-> acc.updated_count,
                not_found_count |-> acc.not_found_count,
                already_set_count |-> acc.already_set_count,
                log_messages |-> acc.log_messages]

CallUpdateDDFile ==
    /\ returned = NotCalled
    /\ returned' = [fn |-> "update_dd_file"] @@ update_dd_file(dd_data, attribute_to_category)
    /\ UNCHANGED <<categorized_data, attribute_to_category, dd_data>>
    /\ UNCHANGED <<diffVars, moveVars, editVars, batchVars>>

NextUpdate ==
    \/ CallUpdateDDFile

(***************************************************************************)
(* The batch loops: main of update_categories_from_categorized.py and      *)
(* process_files of fix_attribute_casing.py and convert_to_dd_v2.1.py.     *)
(*                                                                         *)
(* One action is one turn of the loop, that is one file.  disk holds, for  *)
(* each directory, what each file of the batch contains; writes holds the  *)
(* paths the run has opened with mode 'w'.                                 *)
(***************************************************************************)
BatchFiles == <<"host", "server">>

\* a path that does not exist, and a file json.load raises on
NoFile == [t |-> "no file", v |-> <<>>]
Unreadable == [t |-> "invalid json", v |-> <<>>]

\* a document json.load returns that has no "attributes" key
NoAttributes(doc) == IsDict(doc) /\ "attributes" \notin DOMAIN doc.v

\* save_json(directory / file, doc)
Saved(files, directory, file, doc) ==
    [files EXCEPT ![directory] = [@ EXCEPT ![file] = doc]]

\* the loop of main with the test of "updated > 0" before save_json left out
UpdateCategoriesStep_always_saves ==
    /\ script = "update"
    /\ position < Len(BatchFiles)
    /\ LET categorized_file == BatchFiles[position + 1]
           dd_file == BatchFiles[position + 1]
           categorized == disk.categorized[categorized_file]
       IN  IF categorized = Unreadable
             THEN UNCHANGED <<disk, writes, processed>>
           ELSE IF load_categorized_mapping(categorized.v).attribute_to_category = <<>>
             THEN UNCHANGED <<disk, writes, processed>>
           ELSE IF disk.dd[dd_file] = NoFile \/ disk.dd[dd_file] = Unreadable
             THEN UNCHANGED <<disk, writes, processed>>
           ELSE LET r == update_dd_file(disk.dd[dd_file],
                             load_categorized_mapping(categorized.v).attribute_to_category)
                IN  /\ disk' = Saved(disk, "dd", dd_file, r.dd_data)
                    /\ writes' = writes \cup {<<"dd", dd_file>>}
                    /\ processed' = processed + 1
    /\ position' = position + 1
    /\ UNCHANGED <<script, skipped, replies>>
    /\ UNCHANGED <<diffVars, moveVars, editVars, callVars, rateVars>>

\* update_categories_from_categorized.py, main: one categorized file
UpdateCategoriesStep ==
    /\ script = "update"
    /\ position < Len(BatchFiles)
    /\ LET categorized_file == BatchFiles[position + 1]
           dd_file == BatchFiles[position + 1]
           categorized == disk.categorized[categorized_file]
       IN  IF categorized = Unreadable
             THEN UNCHANGED <<disk, writes, processed>>
           ELSE IF load_categorized_mapping(categorized.v).attribute_to_category = <<>>
             THEN UNCHANGED <<disk, writes, processed>>
           ELSE IF disk.dd[dd_file] = NoFile \/ disk.dd[dd_file] = Unreadable
             THEN UNCHANGED <<disk, writes, processed>>
           ELSE LET r == update_dd_file(disk.dd[dd_file],
                             load_categorized_mapping(categorized.v).attribute_to_category)
                IN  /\ IF r.updated_count > 0
                         THEN /\ disk' = Saved(disk, "dd", dd_file, r.dd_data)
                              /\ writes' = writes \cup {<<"dd", dd_file>>}
                         ELSE UNCHANGED <<disk, writes>>
                    /\ processed' = processed + 1
    /\ position' = position + 1
    /\ UNCHANGED <<script, skipped, replies>>
    /\ UNCHANGED <<diffVars, moveVars, editVars, callVars, rateVars>>

(***************************************************************************)
(* fix_attribute_casing.py.  A text is the sequence of its characters, a   *)
(* word standing for the letters it is made of.                            *)
(***************************************************************************)
\* str.strip()
RECURSIVE strip(_)
strip(text) ==
    IF text # <<>> /\ Head(text) = " " THEN strip(Tail(text))
    ELSE IF text # <<>> /\ text[Len(text)] = " " THEN strip(SubSeq(text, 1, Len(text) - 1))
    ELSE text

\* "Remove quotes if present"
unquote(text) ==
    IF text # <<>> /\ Head(text) = "\"" /\ text[Len(text)] = "\""
      THEN SubSeq(text, 2, Len(text) - 1)
    ELSE IF text # <<>> /\ Head(text) = "'" /\ text[Len(text)] = "'"
      THEN SubSeq(text, 2, Len(text) - 1)
    ELSE text

\* what the provider does with a prompt: it answers with a text, or the call raises
Responses ==
    {[raises |-> TRUE, text |-> <<>>]}
    \cup {[raises |-> FALSE, text |-> t] :
            t \in {<<"host">>, <<"Host">>, <<"Host", ".">>, <<" ", "Host", " ">>,
                   <<"\"", "Host", "\"">>}}

\* fix_casing_with_gemini, fix_casing_with_openai
fix_casing(text, response) ==
    IF response.raises THEN text ELSE unquote(strip(response.text))

ensure_description_ends_with_period(description) ==
    IF description = <<>> THEN description
    ELSE IF strip(description) = <<>> THEN strip(description)
    ELSE IF strip(description)[Len(strip(description))] \notin {".", "!", "?"}
      THEN Append(strip(description), ".")
    ELSE strip(description)

\* 'caption' in attr_data and isinstance(attr_data['caption'], str) and
\* attr_data['caption'].strip(), and the same of the description
HasText(attr_data, field) ==
    /\ field \in DOMAIN attr_data.v
    /\ attr_data.v[field].t = "str"
    /\ strip(attr_data.v[field].v) # <<>>

\* "Fix caption if it exists"
fixed_caption(attr_data, response) ==
    IF HasText(attr_data, "caption")
      THEN fix_casing(attr_data.v["caption"].v, response)
      ELSE <<>>

caption_fixed(attr_data, response) ==
    /\ HasText(attr_data, "caption")
    /\ fixed_caption(attr_data, response) # attr_data.v["caption"].v

\* "Fix description if it exists"
fixed_description(attr_data, response) ==
    IF HasText(attr_data, "description")
      THEN ensure_description_ends_with_period(
               fix_casing(attr_data.v["description"].v, response))
      ELSE <<>>

description_fixed(attr_data, response) ==
    /\ HasText(attr_data, "description")
    /\ fixed_description(attr_data, response) # attr_data.v["description"].v

\* the attribute after the body of "for idx, (attr_name, attr_data) in ..."
fixed_attribute(attr_data, responses) ==
    Dict([field \in DOMAIN attr_data.v |->
            IF field = "caption" /\ caption_fixed(attr_data, responses.caption)
              THEN Str(fixed_caption(attr_data, responses.caption))
            ELSE IF field = "description"
                    /\ description_fixed(attr_data, responses.description)
              THEN Str(fixed_description(attr_data, responses.description))
            ELSE attr_data.v[field]])

\* process_file from "attributes = data['attributes']" on: the document and
\* the two counts that decide whether it is saved
process_file(doc, responses) ==
    LET attributes == doc.v["attributes"].v
    IN  [data |-> Dict(DictSet(doc.v, "attributes",
                         Dict([a \in DOMAIN attributes |->
                                 fixed_attribute(attributes[a], responses[a])]))),
         caption_fixed_count |->
             Cardinality({a \in DOMAIN attributes :
                            caption_fixed(attributes[a], responses[a].caption)}),
         description_fixed_count |->
             Cardinality({a \in DOMAIN attributes :
                            description_fixed(attributes[a], responses[a].description)})]

\* mutant: process_files with an except clause that leaves "skipped += 1" out
FixCasingStep_error_uncounted ==
    /\ script = "casing"
    /\ position < Len(BatchFiles)
    /\ LET file_path == BatchFiles[position + 1]
           doc == disk.dd[file_path]
       IN  IF doc = Unreadable
             THEN /\ writes' = writes \cup {<<"log", file_path>>}
                  /\ replies' = NoTree
                  /\ UNCHANGED <<disk, processed, skipped>>
           ELSE IF NoAttributes(doc)
             THEN /\ processed' = processed + 1
                  /\ writes' = writes \cup {<<"log", file_path>>}
                  /\ replies' = NoTree
                  /\ UNCHANGED <<disk, skipped>>
           ELSE \E responses \in [DOMAIN doc.v["attributes"].v ->
                                    [caption : Responses, description : Responses]] :
                  LET r == process_file(doc, responses)
                  IN  /\ IF r.caption_fixed_count > 0 \/ r.description_fixed_count > 0
                           THEN /\ disk' = Saved(disk, "dd", file_path, r.data)
                                /\ writes' = writes \cup {<<"log", file_path>>,
                                                         <<"dd", file_path>>}
                           ELSE /\ UNCHANGED disk
                                /\ writes' = writes \cup {<<"log", file_path>>}
                      /\ processed' = processed + 1
                      /\ replies' = responses
                      /\ UNCHANGED skipped
    /\ position' = position + 1
    /\ UNCHANGED script
    /\ UNCHANGED <<diffVars, moveVars, editVars, callVars, rateVars>>

\* fix_attribute_casing.py, process_files: one file
FixCasingStep ==
    /\ script = "casing"
    /\ position < Len(BatchFiles)
    /\ LET file_path == BatchFiles[position + 1]
           doc == disk.dd[file_path]
       IN  IF doc = Unreadable
             THEN /\ skipped' = skipped + 1
                  /\ writes' = writes \cup {<<"log", file_path>>}
                  /\ replies' = NoTree
                  /\ UNCHANGED <<disk, processed>>
           ELSE IF NoAttributes(doc)
             THEN /\ processed' = processed + 1
                  /\ writes' = writes \cup {<<"log", file_path>>}
                  /\ replies' = NoTree
                  /\ UNCHANGED <<disk, skipped>>
           ELSE \E responses \in [DOMAIN doc.v["attributes"].v ->
                                    [caption : Responses, description : Responses]] :
                  LET r == process_file(doc, responses)
                  IN  /\ IF r.caption_fixed_count > 0 \/ r.description_fixed_count > 0
                           THEN /\ disk' = Saved(disk, "dd", file_path, r.data)
                                /\ writes' = writes \cup {<<"log", file_path>>,
                                                         <<"dd", file_path>>}
                           ELSE /\ UNCHANGED disk
                                /\ writes' = writes \cup {<<"log", file_path>>}
                      /\ processed' = processed + 1
                      /\ replies' = responses
                      /\ UNCHANGED skipped
    /\ position' = position + 1
    /\ UNCHANGED script
    /\ UNCHANGED <<diffVars, moveVars, editVars, callVars, rateVars>>

(***************************************************************************)
(* fix_attribute_casing.py: the provider calls of a run, attribute by      *)
(* attribute                                                               *)
(***************************************************************************)
\* "delay after every 30 attributes": idx % 30 == 0, then time.sleep(60)
PauseEvery == 30

\* the most attributes a data dictionary of the batch has
MaxAttributes == 31

\* process_file: one turn of "for idx, (attr_name, attr_data) in
\* enumerate(attributes.items(), 1)": a call if the caption has text, a call
\* if the description has text, then the pause when idx is a multiple of 30
ProcessAttribute ==
    /\ script = "casing"
    /\ position < Len(BatchFiles)
    /\ idx < MaxAttributes
    /\ \E caption_calls \in 0..1, description_calls \in 0..1 :
         calls' = IF (idx + 1) % PauseEvery = 0
                    THEN 0
                    ELSE calls + caption_calls + description_calls
    /\ idx' = idx + 1
    /\ UNCHANGED <<script, disk, writes, position, processed, skipped, replies>>
    /\ UNCHANGED <<diffVars, moveVars, editVars, callVars>>

\* process_files: process_file returns or raises and the loop takes the next
\* file, whose attributes are counted from 1 again
NextFile ==
    /\ script = "casing"
    /\ position < Len(BatchFiles)
    /\ position' = position + 1
    /\ idx' = 0
    /\ UNCHANGED calls
    /\ UNCHANGED <<script, disk, writes, processed, skipped, replies>>
    /\ UNCHANGED <<diffVars, moveVars, editVars, callVars>>

NextRate ==
    \/ ProcessAttribute
    \/ NextFile

(***************************************************************************)
(* convert_to_dd_v2.1.py: convert_file and what it calls                   *)
(***************************************************************************)
find_common_parent_keys(client_data, product_data) ==
    (DOMAIN client_data.v \cap DOMAIN product_data.v) \ {"attributes"}

\* the attributes after remove_vra_ccm_from_dashboard_identifier
remove_vra_ccm_from_dashboard_identifier(attributes) ==
    [attr_name \in DOMAIN attributes |->
       LET attr_data == attributes[attr_name]
       IN  IF IsDict(attr_data) /\ ExcludedKey \in DOMAIN attr_data.v
              /\ IsDict(attr_data.v[ExcludedKey])
             THEN Dict(DictSet(attr_data.v, ExcludedKey,
                               Dict(Restrict(attr_data.v[ExcludedKey].v,
                                             DOMAIN attr_data.v[ExcludedKey].v
                                               \ {"VRA", "CCM"}))))
             ELSE attr_data]

\* what the user types: the processing mode, or Ctrl-C at its prompt, and y
\* or, for anything else, n to each question; in mode 1 the questions are the
\* two categories
Questions == AttrNames \cup {"exact matches", "different"}

Answers == [mode : {"1", "2", "interrupt"}, response : [Questions -> {"y", "n"}]]

\* mutant: mode 1 without its "if response == 'y'" for the exact matches
removed_attrs_unasked(exact_matches, different_attrs, answers) ==
    IF answers.mode = "interrupt" THEN {}
    ELSE IF answers.mode = "1"
      THEN exact_matches
           \cup (IF answers.response["different"] = "y" THEN {} ELSE different_attrs)
    ELSE {a \in exact_matches : answers.response[a] = "y"}
         \cup {a \in different_attrs : answers.response[a] # "y"}

\* the attribute names the answers remove
removed_attrs(exact_matches, different_attrs, answers) ==
    IF answers.mode = "interrupt" THEN {}
    ELSE IF answers.mode = "1"
      THEN (IF answers.response["exact matches"] = "y" THEN exact_matches ELSE {})
           \cup (IF answers.response["different"] = "y" THEN {} ELSE different_attrs)
    ELSE {a \in exact_matches : answers.response[a] = "y"}
         \cup {a \in different_attrs : answers.response[a] # "y"}

compare_and_remove_common_attributes(client_attrs, product_attrs, answers) ==
    IF DOMAIN product_attrs = {} THEN client_attrs
    ELSE LET common_attr_names == DOMAIN client_attrs \cap DOMAIN product_attrs
             exact_matches == {a \in common_attr_names :
                                 deep_compare_dicts(client_attrs[a], product_attrs[a])}
             different_attrs == common_attr_names \ exact_matches
         IN  Restrict(client_attrs,
                      DOMAIN client_attrs
                        \ removed_attrs(exact_matches, different_attrs, answers))

\* mutant: the copy loop of convert_file with "elif key not in common_keys" as "else"
convert_file_keeps_common(client_data, product_data, answers) ==
    LET common_keys == IF product_data = NoFile THEN {}
                       ELSE find_common_parent_keys(client_data, product_data)
        output_data == Restrict(client_data.v,
                                DOMAIN client_data.v)
    IN  IF "attributes" \notin DOMAIN output_data THEN Dict(output_data)
        ELSE LET cleaned == remove_vra_ccm_from_dashboard_identifier(
                                output_data["attributes"].v)
             IN  IF product_data # NoFile /\ DOMAIN product_data.v # {}
                    /\ "attributes" \in DOMAIN product_data.v
                   THEN Dict(DictSet(output_data, "attributes",
                               Dict(compare_and_remove_common_attributes(
                                        cleaned, product_data.v["attributes"].v, answers))))
                   ELSE Dict(DictSet(output_data, "attributes", Dict(cleaned)))

\* output_data of convert_file; product_data is NoFile when there is no
\* Product file of that name
convert_file(client_data, product_data, answers) ==
    LET common_keys == IF product_data = NoFile THEN {}
                       ELSE find_common_parent_keys(client_data, product_data)
        output_data == Restrict(client_data.v,
                                {key \in DOMAIN client_data.v :
                                   key = "attributes" \/ key \notin common_keys})
    IN  IF "attributes" \notin DOMAIN output_data THEN Dict(output_data)
        ELSE LET cleaned == remove_vra_ccm_from_dashboard_identifier(
                                output_data["attributes"].v)
             IN  IF product_data # NoFile /\ DOMAIN product_data.v # {}
                    /\ "attributes" \in DOMAIN product_data.v
                   THEN Dict(DictSet(output_data, "attributes",
                               Dict(compare_and_remove_common_attributes(
                                        cleaned, product_data.v["attributes"].v, answers))))
                   ELSE Dict(DictSet(output_data, "attributes", Dict(cleaned)))

\* convert_to_dd_v2.1.py, process_files: one file
ConvertStep ==
    /\ script = "convert"
    /\ position < Len(BatchFiles)
    /\ LET client_file == BatchFiles[position + 1]
           client_data == disk.client[client_file]
           product_data == disk.product[client_file]
       IN  IF client_data = Unreadable \/ product_data = Unreadable
             THEN /\ skipped' = skipped + 1
                  /\ writes' = writes \cup {<<"log", client_file>>}
                  /\ replies' = NoTree
                  /\ UNCHANGED <<disk, processed>>
             ELSE \E answers \in Answers :
                    /\ disk' = Saved(disk, "dd", client_file,
                                     convert_file(client_data, product_data, answers))
                    /\ writes' = writes \cup {<<"log", client_file>>, <<"dd", client_file>>}
                    /\ processed' = processed + 1
                    /\ replies' = answers
                    /\ UNCHANGED skipped
    /\ position' = position + 1
    /\ UNCHANGED script
    /\ UNCHANGED <<diffVars, moveVars, editVars, callVars, rateVars>>

NextBatch ==
    \/ UpdateCategoriesStep
    \/ FixCasingStep
    \/ ConvertStep

(***************************************************************************)
(* The files of a batch                                                    *)
(***************************************************************************)
Files == Range(BatchFiles)

NoAttributesDoc == Dict("entity" :> Str("Host"))

WithAttributes(attrs) == Dict(("entity" :> Str("Host")) @@ ("attributes" :> Dict(attrs)))

\* Client/categorized: an export that lists nothing, exports that list one
\* and two attributes, and a file that is not JSON
Exports ==
    {Unreadable,
     Dict(<< <<EntityName, <<>> >> >>),
     Dict(<< <<EntityName, << <<"common", << <<"identity", <<"host_name">> >> >> >> >> >> >>),
     Dict(<< <<EntityName, << <<"common", << <<"identity", <<"host_name">> >>,
                                             <<"os_info", <<"os_version">> >> >> >> >> >> >>)}

\* Client/DD v2.1 before the categories are updated
UncategorizedDocs ==
    {NoFile, Unreadable, NoAttributesDoc,
     WithAttributes("host_name" :> Dict("caption" :> Str("Host Name"))),
     WithAttributes("host_name" :> Dict(("caption" :> Str("Host Name"))
                                        @@ ("category" :> Str("identity"))))}

\* Client/DD v2.1 before the casing is fixed
UncasedDocs ==
    {Unreadable, NoAttributesDoc}
    \cup {WithAttributes("host_name" :> Dict(("caption" :> Str(c))
                                             @@ ("description" :> Str(d)))) :
            c \in {<<"host">>, <<"Host">>}, d \in {<<"host">>, <<"Host", ".">>}}

\* Client and Product
ClientDocs ==
    {Unreadable, NoAttributesDoc,
     WithAttributes("host_name" :>
                      Dict(("caption" :> Str("Host Name"))
                           @@ (ExcludedKey :> Dict("VRA" :> Num(1))))),
     Dict(("version" :> Num(1))
          @@ ("attributes" :> Dict(("host_name" :> Dict("caption" :> Str("Host Name")))
                                   @@ ("os_version" :> Dict("caption" :> Num(1))))))}

ProductDocs ==
    {NoFile, Unreadable, NoAttributesDoc,
     WithAttributes("host_name" :> Dict("caption" :> Str("Host Name"))),
     WithAttributes(("host_name" :> Dict("caption" :> Str("Host Name")))
                    @@ ("os_version" :> Dict("caption" :> Str("Host Name"))))}

NoFiles == [f \in Files |-> NoFile]

\* the directories a script finds when it starts
BatchDisks(name) ==
    IF name = "update"
      THEN {[client |-> NoFiles, product |-> NoFiles, dd |-> dd, categorized |-> c] :
              dd \in [Files -> UncategorizedDocs], c \in [Files -> Exports]}
    ELSE IF name = "casing"
      THEN {[client |-> NoFiles, product |-> NoFiles, dd |-> dd, categorized |-> NoFiles] :
              dd \in [Files -> UncasedDocs]}
    ELSE {[client |-> c, product |-> pr, dd |-> NoFiles, categorized |-> NoFiles] :
            c \in [Files -> ClientDocs], pr \in [Files -> ProductDocs]}

(***************************************************************************)
(* Specifications: the differ's calls, move_attribute called twice, and    *)
(* the editing session.  Each leaves the other parts' variables alone.     *)
(***************************************************************************)
InitSpecDiff ==
    /\ dict1 \in Values
    /\ dict2 \in Values
    /\ call = NotCalled
    /\ tree = NoTree /\ args = NoTree /\ once = NoTree /\ twice = NoTree
    /\ data = NoTree /\ original_data = NoTree /\ last = "none" /\ request = NoRequest
    /\ current_file = "" /\ load_modified = FALSE /\ modified_files = NoTree
    /\ categorized_data = NoTree /\ attribute_to_category = NoTree
    /\ dd_data = NoTree /\ returned = NotCalled
    /\ script = "none" /\ disk = NoTree /\ writes = {}
    /\ position = 0 /\ processed = 0 /\ skipped = 0 /\ replies = NoTree
    /\ idx = 0 /\ calls = 0

SpecDiff == InitSpecDiff /\ [][NextDiff]_vars

InitSpecMove ==
    /\ tree \in Trees(AnyLists)
    /\ args = NoTree
    /\ once = NoTree
    /\ twice = NoTree
    /\ dict1 = Num(1) /\ dict2 = Num(1) /\ call = NotCalled
    /\ data = NoTree /\ original_data = NoTree /\ last = "none" /\ request = NoRequest
    /\ current_file = "" /\ load_modified = FALSE /\ modified_files = NoTree
    /\ categorized_data = NoTree /\ attribute_to_category = NoTree
    /\ dd_data = NoTree /\ returned = NotCalled
    /\ script = "none" /\ disk = NoTree /\ writes = {}
    /\ position = 0 /\ processed = 0 /\ skipped = 0 /\ replies = NoTree
    /\ idx = 0 /\ calls = 0

SpecMove == InitSpecMove /\ [][NextMove]_vars

InitSpecEdit ==
    /\ data \in Documents
    /\ original_data = data
    /\ last = "load"
    /\ request = NoRequest
    /\ current_file = "" /\ load_modified = FALSE /\ modified_files = NoTree
    /\ dict1 = Num(1) /\ dict2 = Num(1) /\ call = NotCalled
    /\ tree = NoTree /\ args = NoTree /\ once = NoTree /\ twice = NoTree
    /\ categorized_data = NoTree /\ attribute_to_category = NoTree
    /\ dd_data = NoTree /\ returned = NotCalled
    /\ script = "none" /\ disk = NoTree /\ writes = {}
    /\ position = 0 /\ processed = 0 /\ skipped = 0 /\ replies = NoTree
    /\ idx = 0 /\ calls = 0

SpecEdit == InitSpecEdit /\ [][NextEdit]_vars

\* the first run of a session: the selectbox shows the first name os.listdir
\* gave, the checkbox is unticked
InitSpecSession ==
    /\ current_file \in JsonFiles
    /\ load_modified = FALSE
    /\ modified_files \in {[f \in JsonFiles |-> NoTree],
                           [f \in JsonFiles |-> IF f = "Host.json" THEN SavedEarlier
                                                ELSE NoTree]}
    /\ data = OriginalFiles[current_file]
    /\ original_data = data
    /\ last = "load"
    /\ request = NoRequest
    /\ dict1 = Num(1) /\ dict2 = Num(1) /\ call = NotCalled
    /\ tree = NoTree /\ args = NoTree /\ once = NoTree /\ twice = NoTree
    /\ categorized_data = NoTree /\ attribute_to_category = NoTree
    /\ dd_data = NoTree /\ returned = NotCalled
    /\ script = "none" /\ disk = NoTree /\ writes = {}
    /\ position = 0 /\ processed = 0 /\ skipped = 0 /\ replies = NoTree
    /\ idx = 0 /\ calls = 0

SpecSession == InitSpecSession /\ [][NextSession]_vars

InitSpecSave ==
    /\ current_file \in JsonFiles
    /\ load_modified = FALSE
    /\ modified_files \in {[f \in JsonFiles |-> NoTree],
                           [f \in JsonFiles |-> IF f = "Host.json" THEN SavedEarlier
                                                ELSE NoTree]}
    /\ data \in Documents
    /\ original_data = data
    /\ last = "load"
    /\ request = NoRequest
    /\ dict1 = Num(1) /\ dict2 = Num(1) /\ call = NotCalled
    /\ tree = NoTree /\ args = NoTree /\ once = NoTree /\ twice = NoTree
    /\ categorized_data = NoTree /\ attribute_to_category = NoTree
    /\ dd_data = NoTree /\ returned = NotCalled
    /\ script = "none" /\ disk = NoTree /\ writes = {}
    /\ position = 0 /\ processed = 0 /\ skipped = 0 /\ replies = NoTree
    /\ idx = 0 /\ calls = 0

SpecSave == InitSpecSave /\ [][NextSave]_vars

InitSpecMapping ==
    /\ categorized_data \in CategorizedDocuments(AnyLists)
    /\ attribute_to_category = NoTree
    /\ dd_data = NoTree
    /\ returned = NotCalled
    /\ dict1 = Num(1) /\ dict2 = Num(1) /\ call = NotCalled
    /\ tree = NoTree /\ args = NoTree /\ once = NoTree /\ twice = NoTree
    /\ data = NoTree /\ original_data = NoTree /\ last = "none" /\ request = NoRequest
    /\ current_file = "" /\ load_modified = FALSE /\ modified_files = NoTree
    /\ script = "none" /\ disk = NoTree /\ writes = {}
    /\ position = 0 /\ processed = 0 /\ skipped = 0 /\ replies = NoTree
    /\ idx = 0 /\ calls = 0

SpecMapping == InitSpecMapping /\ [][NextMapping]_vars

InitSpecUpdate ==
    /\ dd_data \in DDDocuments
    /\ attribute_to_category \in Mappings
    /\ categorized_data = NoTree
    /\ returned = NotCalled
    /\ dict1 = Num(1) /\ dict2 = Num(1) /\ call = NotCalled
    /\ tree = NoTree /\ args = NoTree /\ once = NoTree /\ twice = NoTree
    /\ data = NoTree /\ original_data = NoTree /\ last = "none" /\ request = NoRequest
    /\ current_file = "" /\ load_modified = FALSE /\ modified_files = NoTree
    /\ script = "none" /\ disk = NoTree /\ writes = {}
    /\ position = 0 /\ processed = 0 /\ skipped = 0 /\ replies = NoTree
    /\ idx = 0 /\ calls = 0

SpecUpdate == InitSpecUpdate /\ [][NextUpdate]_vars

InitSpecBatch ==
    /\ script \in {"update", "casing", "convert"}
    /\ disk \in BatchDisks(script)
    /\ writes = {}
    /\ position = 0
    /\ processed = 0
    /\ skipped = 0
    /\ replies = NoTree
    /\ idx = 0 /\ calls = 0
    /\ categorized_data = NoTree /\ attribute_to_category = NoTree
    /\ dd_data = NoTree /\ returned = NotCalled
    /\ dict1 = Num(1) /\ dict2 = Num(1) /\ call = NotCalled
    /\ tree = NoTree /\ args = NoTree /\ once = NoTree /\ twice = NoTree
    /\ data = NoTree /\ original_data = NoTree /\ last = "none" /\ request = NoRequest
    /\ current_file = "" /\ load_modified = FALSE /\ modified_files = NoTree

SpecBatch == InitSpecBatch /\ [][NextBatch]_vars

InitSpecRate ==
    /\ script = "casing"
    /\ position = 0
    /\ idx = 0
    /\ calls = 0
    /\ disk = NoTree /\ writes = {} /\ processed = 0 /\ skipped = 0 /\ replies = NoTree
    /\ categorized_data = NoTree /\ attribute_to_category = NoTree
    /\ dd_data = NoTree /\ returned = NotCalled
    /\ dict1 = Num(1) /\ dict2 = Num(1) /\ call = NotCalled
    /\ tree = NoTree /\ args = NoTree /\ once = NoTree /\ twice = NoTree
    /\ data = NoTree /\ original_data = NoTree /\ last = "none" /\ request = NoRequest
    /\ current_file = "" /\ load_modified = FALSE /\ modified_files = NoTree

SpecRate == InitSpecRate /\ [][NextRate]_vars

(***************************************************************************)
(* Properties of the differ (SpecDiff)                                     *)
(***************************************************************************)
\* a record with a list, a nested mapping that holds the excluded key, and
\* the excluded key itself
RichRecord(d) ==
    /\ IsDict(d)
    /\ DOMAIN d.v = {"caption", "details", ExcludedKey}
    /\ IsList(d.v["caption"])
    /\ IsDict(d.v["details"])
    /\ ExcludedKey \in DOMAIN d.v["details"].v

\* C1: reflexivity. Comparing a record with itself, deep_compare_dicts
\* returns true and find_dict_differences returns the empty list.
C1_Reflexive ==
    dict1 = dict2 =>
        /\ call.fn = "deep_compare_dicts" => call.result = TRUE
        /\ call.fn = "find_dict_differences" => call.result = <<>>

C1_Witness ==
    /\ dict1 = dict2
    /\ RichRecord(dict1)
    /\ call.fn = "find_dict_differences"
    /\ call.result = <<>>

\* C2: symmetry of the match flag. What deep_compare_dicts(A, B) returned is
\* what deep_compare_dicts(B, A) returns.
C2_Symmetric ==
    call.fn = "deep_compare_dicts" =>
        call.result = deep_compare_dicts(dict2, dict1)

C2_Witness ==
    /\ call.fn = "deep_compare_dicts"
    /\ IsDict(dict1) /\ IsDict(dict2)
    /\ DOMAIN dict1.v \ {ExcludedKey} # DOMAIN dict2.v \ {ExcludedKey}
    /\ DOMAIN dict1.v \ {ExcludedKey} \subseteq DOMAIN dict2.v
    /\ call.result = FALSE

\* the two records hold the same keys with the same values, the excluded key
\* aside (which either may lack)
DifferOnlyInExcluded(a, b) ==
    /\ IsDict(a) /\ IsDict(b)
    /\ \A k \in (DOMAIN a.v \cup DOMAIN b.v) \ {ExcludedKey} :
         k \in DOMAIN a.v /\ k \in DOMAIN b.v /\ a.v[k] = b.v[k]

\* C3: excluded key. For records that differ only under dashboard_identifier,
\* deep_compare_dicts returns true and get_common_attributes reports every
\* common attribute as an exact match with no differences.
C3_ExcludedKey ==
    DifferOnlyInExcluded(dict1, dict2) =>
        /\ call.fn = "deep_compare_dicts" => call.result = TRUE
        /\ call.fn = "get_common_attributes" =>
             \A n \in DOMAIN call.result :
                call.result[n][3] = TRUE /\ call.result[n][4] = <<>>

C3_Witness ==
    /\ DifferOnlyInExcluded(dict1, dict2)
    /\ ExcludedKey \in DOMAIN dict1.v
    /\ ExcludedKey \in DOMAIN dict2.v
    /\ dict1.v[ExcludedKey] # dict2.v[ExcludedKey]
    /\ "caption" \in DOMAIN dict1.v
    /\ call.fn = "get_common_attributes"
    /\ DOMAIN call.result = AttrNames

\* C4: no mutation. A call of deep_compare_dicts or find_dict_differences
\* leaves both argument records as they were.
C4_InputsUnchanged ==
    [][call'.fn \in {"deep_compare_dicts", "find_dict_differences"} =>
         dict1' = dict1 /\ dict2' = dict2]_vars

C4_Witness ==
    /\ call.fn = "deep_compare_dicts"
    /\ RichRecord(dict1)
    /\ RichRecord(dict2)
    /\ dict1.v[ExcludedKey] # dict2.v[ExcludedKey]
    /\ call.result = TRUE

\* C5: determinism of the report. A second find_dict_differences on the same
\* two records returns the sequence the first returned.
C5_SameReport ==
    [][call.fn = "find_dict_differences" /\ call'.fn = "find_dict_differences" =>
         call'.result = call.result]_vars

(***************************************************************************)
(* Properties of move_attribute (SpecMove)                                 *)
(***************************************************************************)
\* no category of the tree names an attribute twice
NoDuplicates(d) ==
    \A s \in DOMAIN d[entity_name_of(d)] :
        \A c \in DOMAIN d[entity_name_of(d)][s] : Unique(d[entity_name_of(d)][s][c])

\* the category at section s, category c exists
HasCategory(d, s, c) ==
    /\ s \in DOMAIN d[entity_name_of(d)]
    /\ c \in DOMAIN d[entity_name_of(d)][s]

AttrsOf(d, s, c) == d[entity_name_of(d)][s][c]

\* the attribute is in the category the call names as its source
AtSource(d, a) ==
    /\ HasCategory(d, a.from_section, a.from_category)
    /\ a.attribute_name \in Range(AttrsOf(d, a.from_section, a.from_category))

SameLocation(a) ==
    a.from_section = a.to_section /\ a.from_category = a.to_category

Occurrences(q, x) == Cardinality({i \in DOMAIN q : q[i] = x})

\* C6: idempotence. On a tree whose categories name no attribute twice, the
\* second call with the same arguments returns the tree the first returned.
C6_Idempotent ==
    (twice # NoTree /\ NoDuplicates(tree)) => twice = once

C6_Witness ==
    /\ twice # NoTree
    /\ NoDuplicates(tree)
    /\ SameLocation(args)
    /\ AtSource(tree, args)
    /\ once # tree
    /\ twice = once

\* C7: a call whose attribute is not at the stated source returns the tree
\* unchanged.
C7_NoOpWhenNotFound ==
    (once # NoTree /\ ~AtSource(tree, args)) => once = tree

\* the call removes the only attribute its source category holds
RemovesLast(d, a) ==
    /\ HasCategory(d, a.from_section, a.from_category)
    /\ AttrsOf(d, a.from_section, a.from_category) = <<a.attribute_name>>

\* after the call the destination category exists and names the attribute once
InDestinationOnce(d, a) ==
    /\ HasCategory(d, a.to_section, a.to_category)
    /\ Occurrences(AttrsOf(d, a.to_section, a.to_category), a.attribute_name) = 1

\* C8 as stated: a source category emptied by the call is absent afterwards,
\* and the destination category exists and names the attribute exactly once.
C8_AsStated ==
    (once # NoTree /\ NoDuplicates(tree)) =>
        /\ RemovesLast(tree, args) =>
             ~HasCategory(once, args.from_section, args.from_category)
        /\ InDestinationOnce(once, args)

\* C8 amended: the emptied source category is absent afterwards unless it is
\* the destination, where it then holds the attribute alone.
C8_Amended ==
    (once # NoTree /\ NoDuplicates(tree)) =>
        /\ (RemovesLast(tree, args) /\ ~SameLocation(args)) =>
               ~HasCategory(once, args.from_section, args.from_category)
        /\ (RemovesLast(tree, args) /\ SameLocation(args)) =>
               AttrsOf(once, args.to_section, args.to_category) = <<args.attribute_name>>
        /\ InDestinationOnce(once, args)

C8_Witness ==
    /\ once # NoTree
    /\ NoDuplicates(tree)
    /\ RemovesLast(tree, args)
    /\ args.to_section \notin DOMAIN tree[entity_name_of(tree)]
    /\ ~HasCategory(once, args.from_section, args.from_category)
    /\ AttrsOf(once, args.to_section, args.to_category) = <<args.attribute_name>>

(***************************************************************************)
(* Properties of the editing session (SpecEdit)                            *)
(***************************************************************************)
EmptyCategories(d) == {p \in all_categories(d) : AttrsOf(d, p[1], p[2]) = <<>>}

\* C9 as stated: no category of the session tree holds zero attributes.
C9_NoEmptyCategory == EmptyCategories(data) = {}

\* C9 amended: only create category adds an empty category; no other
\* operation raises the number of empty categories.
C9_OnlyCreateEmpties ==
    [][Cardinality(EmptyCategories(data')) > Cardinality(EmptyCategories(data)) =>
         last' = "create"]_vars

\* a delete has emptied a category, and the category is gone
C9_Witness ==
    /\ last = "delete"
    /\ EmptyCategories(data) = {}
    /\ \E p \in all_categories(original_data) : p \notin all_categories(data)

\* C10: no category of the session tree names an attribute twice.
C10_NoDuplicates == NoDuplicates(data)

C10_Witness ==
    /\ last = "add: already exists"
    /\ NoDuplicates(data)
    /\ data # original_data

\* the section a request names, in tree d
SectionOf(d, r) == d[entity_name_of(d)][r.section_name]

\* the tree outside the section a request names
OtherSections(d, r) ==
    [s \in DOMAIN d[entity_name_of(d)] \ {r.section_name} |-> d[entity_name_of(d)][s]]

\* C11: renaming a category to a name its section already holds reports the
\* name conflict and leaves the tree as it was.
C11_RenameConflict ==
    [][(request'.op = "rename" /\ request'.name \in DOMAIN SectionOf(data, request')) =>
         /\ last' = "rename: already exists"
         /\ data' = data]_vars

\* a rename to the name of a category that holds another list was refused
C11_Witness ==
    /\ last = "rename: already exists"
    /\ request.op = "rename"
    /\ {request.name, request.category_name} \subseteq DOMAIN SectionOf(data, request)
    /\ SectionOf(data, request)[request.name] # SectionOf(data, request)[request.category_name]

\* C12: after a rename to a name the section does not hold, the new name
\* holds the old list in its order, the old name is gone, and every other
\* category is as it was.
C12_RenameKeepsList ==
    [][(request'.op = "rename" /\ request'.name \notin DOMAIN SectionOf(data, request')) =>
         LET before == SectionOf(data, request')
             after == SectionOf(data', request')
             old == request'.category_name
             new == request'.name
         IN  /\ last' = "rename"
             /\ DOMAIN after = (DOMAIN before \ {old}) \cup {new}
             /\ after[new] = before[old]
             /\ \A c \in DOMAIN before \ {old} : after[c] = before[c]
             /\ OtherSections(data', request') = OtherSections(data, request')]_vars

\* a category of two attributes was renamed, next to another category
C12_Witness ==
    /\ last = "rename"
    /\ request.category_name \notin DOMAIN SectionOf(data, request)
    /\ Len(SectionOf(data, request)[request.name]) = 2
    /\ Cardinality(DOMAIN SectionOf(data, request)) = 2

\* the attribute names a tree holds, and how many entries its lists have
Names(d) == UNION {Range(AttrsOf(d, p[1], p[2])) : p \in all_categories(d)}

RECURSIVE SumLen(_, _)
SumLen(d, ps) ==
    IF ps = {} THEN 0
    ELSE LET p == CHOOSE q \in ps : TRUE
         IN  Len(AttrsOf(d, p[1], p[2])) + SumLen(d, ps \ {p})

TotalCount(d) == SumLen(d, all_categories(d))

\* the categories a step of the session removes
Removed == all_categories(data) \ all_categories(data')

C14_CreateCategory ==
    [][request'.op = "create" =>
         LET before == SectionOf(data, request')
             after == SectionOf(data', request')
         IN  IF request'.name \in DOMAIN before
               THEN /\ last' = "create: already exists"
                    /\ data' = data
               ELSE /\ last' = "create"
                    /\ DOMAIN after = DOMAIN before \cup {request'.name}
                    /\ after[request'.name] = <<>>
                    /\ \A c \in DOMAIN before : after[c] = before[c]
                    /\ OtherSections(data', request') = OtherSections(data, request')]_vars

\* a category was created empty, and creating it once more was refused
C14_Witness ==
    /\ last = "create: already exists"
    /\ request.op = "create"
    /\ SectionOf(data, request)[request.name] = <<>>
    /\ <<request.section_name, request.name>> \notin all_categories(original_data)

\* C15: after revert the session tree equals the snapshot, which is the
\* document taken when the file was loaded.
C15_Revert ==
    [][last' = "revert" =>
         /\ data' = original_data
         /\ original_data' = original_data
         /\ original_data \in Documents]_vars

\* revert has acted on a session whose snapshot still holds a category
C15_Witness ==
    /\ last = "revert"
    /\ data = original_data
    /\ all_categories(data) # {}

\* the operations that report a change of the tree
Mutating == {"move", "delete", "add", "rename", "create"}

\* a move of an attribute to the category it is in, where it is already last
MoveInPlace(d, r) ==
    /\ r.op = "move"
    /\ r.move_section = r.section_name
    /\ r.move_category = r.category_name
    /\ AttrsOf(d, r.section_name, r.category_name)
          [Len(AttrsOf(d, r.section_name, r.category_name))] = r.name

\* C16 as stated: after every mutating operation the session tree differs
\* from the snapshot, whether it was equal to it before or not.
C16_AsStated ==
    [][last' \in Mutating => data' # original_data']_vars

\* C16 amended: every mutating operation changes the tree, except a move of
\* an attribute to its own category when it is already last in the list; so
\* it takes a tree equal to the snapshot to one that differs from it.
C16_Amended ==
    [][last' \in Mutating =>
         /\ data' = data <=> MoveInPlace(data, request')
         /\ (data = original_data /\ ~MoveInPlace(data, request')) =>
              data' # original_data']_vars

\* an edit has brought a tree that differed from the snapshot back to it
C16_Witness ==
    /\ last = "delete"
    /\ data = original_data

(***************************************************************************)
(* Properties of the files of a session (SpecSession)                      *)
(***************************************************************************)
\* C17: after a file is selected, or the other version of the file is
\* chosen, the session tree and the snapshot both equal the document that
\* the run loaded.
C17_LoadMakesClean ==
    [][last' \in {"select file", "load version"} =>
         /\ data' = LoadData(modified_files', current_file', load_modified')
         /\ original_data' = LoadData(modified_files', current_file', load_modified')]_vars

(***************************************************************************)
(* Properties of update_categories_from_categorized.py                     *)
(***************************************************************************)
RECURSIVE Concat(_)
Concat(qs) == IF qs = <<>> THEN <<>> ELSE Head(qs) \o Concat(Tail(qs))

\* the <<attribute, category>> pairs of an export, in the order it lists them
ListedIn(categories) ==
    Concat([i \in DOMAIN categories |->
              [k \in DOMAIN categories[i][2] |-> <<categories[i][2][k], categories[i][1]>>]])

Listing(categorized) ==
    Concat([e \in DOMAIN categorized |->
              Concat([g \in DOMAIN categorized[e][2] |->
                        ListedIn(categorized[e][2][g][2])])])

\* the pairs of a listing whose attribute an earlier pair names
Repeated(l) ==
    LET at == {i \in DOMAIN l : \E j \in 1..(i - 1) : l[j][1] = l[i][1]}
        nth(k) == CHOOSE i \in at : Cardinality({j \in at : j < i}) = k - 1
    IN  [k \in 1..Cardinality(at) |-> l[nth(k)]]

\* C18: the mapping names exactly the attributes the export lists, each with
\* the category of its last listing in document order, and a warning is
\* printed for every listing of an attribute listed before.
C18_LastWriteWins ==
    returned.fn = "load_categorized_mapping" =>
        LET l == Listing(categorized_data)
            m == returned.attribute_to_category
        IN  /\ {m[i][1] : i \in DOMAIN m} = {l[i][1] : i \in DOMAIN l}
            /\ \A i \in DOMAIN l :
                 (\A j \in DOMAIN l : j > i => l[j][1] # l[i][1]) =>
                     Get(m, l[i][1]) = l[i][2]
            /\ returned.warnings = Repeated(l)

\* an attribute listed under one category in one section and under another
\* in a later section, and listed a third time
C18_Witness ==
    /\ returned.fn = "load_categorized_mapping"
    /\ Len(categorized_data[1][2]) = 2
    /\ Len(returned.warnings) = 2
    /\ \E i \in DOMAIN ListedIn(categorized_data[1][2][1][2]) :
         ListedIn(categorized_data[1][2][1][2])[i][1] = returned.warnings[1][1]
    /\ returned.warnings[2] \in Range(ListedIn(categorized_data[1][2][2][2]))
    /\ returned.warnings[1][1] = returned.warnings[2][1]
    /\ returned.warnings[1][2] # returned.warnings[2][2]
    /\ Get(returned.attribute_to_category, returned.warnings[2][1]) = returned.warnings[2][2]

\* the entries of the mapping by what the loaded dictionary says of them
Absent(dd, mapping) ==
    {i \in DOMAIN mapping : mapping[i][1] \notin DOMAIN dd.v["attributes"].v}

Matching(dd, mapping) ==
    {i \in DOMAIN mapping \ Absent(dd, mapping) :
       PyEq(current_category(dd.v["attributes"].v[mapping[i][1]]), Str(mapping[i][2]))}

Differing(dd, mapping) == DOMAIN mapping \ (Absent(dd, mapping) \cup Matching(dd, mapping))

\* the three counts are those of the absent, matching and differing entries;
\* a differing attribute has the mapped category afterwards; no attribute is
\* added or removed, and nothing else is changed
Classified(dd, mapping, r) ==
    LET before == dd.v["attributes"].v
        after == r.dd_data.v["attributes"].v
    IN  /\ r.not_found_count = Cardinality(Absent(dd, mapping))
        /\ r.already_set_count = Cardinality(Matching(dd, mapping))
        /\ r.updated_count = Cardinality(Differing(dd, mapping))
        /\ r.updated_count + r.already_set_count + r.not_found_count = Len(mapping)
        /\ DOMAIN r.dd_data.v = DOMAIN dd.v
        /\ \A k \in DOMAIN dd.v \ {"attributes"} : r.dd_data.v[k] = dd.v[k]
        /\ DOMAIN after = DOMAIN before
        /\ \A i \in Differing(dd, mapping) :
             /\ after[mapping[i][1]].v["category"] = Str(mapping[i][2])
             /\ DictDel(after[mapping[i][1]].v, "category")
                  = DictDel(before[mapping[i][1]].v, "category")
        /\ \A a \in DOMAIN before :
             (\A i \in Differing(dd, mapping) : mapping[i][1] # a) => after[a] = before[a]

\* C19 as stated: whatever the document, update_dd_file puts every entry of
\* the mapping in one of the three classes, the counts add up to the size
\* of the mapping, and nothing but the category of an updated attribute
\* changes.
C19_AsStated ==
    returned.fn = "update_dd_file" =>
        /\ returned.updated_count + returned.already_set_count + returned.not_found_count
             = Len(attribute_to_category)
        /\ "attributes" \in DOMAIN dd_data.v =>
             Classified(dd_data, attribute_to_category, returned)

\* C19 amended: that holds of a document with an "attributes" key; a document
\* without one is returned as loaded, with a warning and the three counts 0.
C19_Amended ==
    returned.fn = "update_dd_file" =>
        IF "attributes" \in DOMAIN dd_data.v
          THEN Classified(dd_data, attribute_to_category, returned)
          ELSE /\ returned.dd_data = dd_data
               /\ returned.updated_count = 0
               /\ returned.already_set_count = 0
               /\ returned.not_found_count = 0
               /\ Len(returned.log_messages) = 1

\* one attribute was updated, one was reported absent, and the dictionary
\* holds an attribute the mapping does not name
C19_Witness ==
    /\ returned.fn = "update_dd_file"
    /\ "attributes" \in DOMAIN dd_data.v
    /\ returned.updated_count = 1
    /\ returned.not_found_count = 1
    /\ "ip_address" \in DOMAIN dd_data.v["attributes"].v
    /\ returned.dd_data # dd_data

(***************************************************************************)
(* Properties of the batch loops (SpecBatch)                               *)
(***************************************************************************)
\* the documents the turn for a file loads, by directory
Loaded(file) ==
    IF script = "convert"
      THEN {<<"client", file>>, <<"product", file>>}
      ELSE {<<"dd", file>>}

\* C20: a turn of a batch loop that loads a document with no "attributes"
\* key neither changes that file nor opens it for writing, and the loop moves
\* on to the next file.
C20_MalformedSkipped ==
    [][\A path \in Loaded(BatchFiles[position + 1]) :
         (position < Len(BatchFiles) /\ NoAttributes(disk[path[1]][path[2]])) =>
             /\ disk'[path[1]][path[2]] = disk[path[1]][path[2]]
             /\ path \notin writes'
             /\ position' = position + 1
             /\ script' = script]_vars

\* the first file had no "attributes" key and was left alone, and the second
\* file was then processed and written
C20_Witness ==
    /\ position = 2
    /\ script \in {"update", "casing"}
    /\ NoAttributes(disk.dd[BatchFiles[1]])
    /\ <<"dd", BatchFiles[1]>> \notin writes
    /\ <<"dd", BatchFiles[2]>> \in writes
    /\ processed = 2

(***************************************************************************)
(* Properties of the casing fixer (SpecBatch)                              *)
(***************************************************************************)
\* the attributes of the data dictionary of a file
AttributesOf(files, file) == files.dd[file].v["attributes"].v

\* the turn of process_files just taken called the provider
Called == script = "casing" /\ position' = position + 1 /\ replies' # NoTree

\* C21: when the provider call made for a caption or a description raises,
\* the field has after the turn exactly the value it had before it.
C21_FailureKeepsField ==
    [][Called =>
         LET file_path == BatchFiles[position']
         IN  \A a \in DOMAIN AttributesOf(disk, file_path) :
               \A field \in {"caption", "description"} :
                 (HasText(AttributesOf(disk, file_path)[a], field)
                    /\ replies'[a][field].raises) =>
                     AttributesOf(disk', file_path)[a].v[field]
                       = AttributesOf(disk, file_path)[a].v[field]]_vars

\* C22: a run of the casing fixer never issues more than 30 provider calls
\* without a pause of 60 seconds between them.
C22_RateLimit == calls <= PauseEvery

(***************************************************************************)
(* Properties of save_json_file (SpecSave)                                 *)
(***************************************************************************)
\* C23: when a save has failed, the file it was writing is a complete
\* document or is as it was before the save: never empty, never cut short.
C23_SaveAtomic ==
    last = "save: error" => ~IsTruncated(modified_files[current_file])

(***************************************************************************)
(* Properties of process_files (SpecBatch)                                 *)
(***************************************************************************)
\* C24: in the conversion and casing scripts every file the loop has been
\* through was counted once, as processed or as failed, so that at the end
\* of the loop the two counts add up to the number of files selected.
C24_CountsAddUp ==
    script \in {"casing", "convert"} =>
        /\ processed + skipped = position
        /\ position <= Len(BatchFiles)

\* the first file raised and was counted as failed, and the second file was
\* processed after it
C24_Witness ==
    /\ script \in {"casing", "convert"}
    /\ position = Len(BatchFiles)
    /\ Unreadable \in {disk.dd[BatchFiles[1]], disk.client[BatchFiles[1]]}
    /\ skipped = 1
    /\ processed = 1
    /\ <<"dd", BatchFiles[2]>> \in writes

(***************************************************************************)
(* Properties of convert_file (SpecBatch)                                  *)
(***************************************************************************)
\* the turn of process_files just taken converted a file
Converted == script = "convert" /\ position' = position + 1 /\ replies' # NoTree

\* C25: the top-level keys of the output are the Client's keys without the
\* keys other than "attributes" that Product has too, all of the Client's keys
\* when there is no Product file, and every key kept other than "attributes"
\* has the Client's value.
C25_OutputKeys ==
    [][Converted =>
         LET client_file == BatchFiles[position']
             client_data == disk.client[client_file].v
             product_data == disk.product[client_file]
             output_data == disk'.dd[client_file].v
         IN  /\ DOMAIN output_data =
                   IF product_data = NoFile THEN DOMAIN client_data
                   ELSE DOMAIN client_data
                          \ ((DOMAIN client_data \cap DOMAIN product_data.v)
                               \ {"attributes"})
             /\ \A key \in DOMAIN output_data \ {"attributes"} :
                   output_data[key] = client_data[key]]_vars

\* a Client file with "entity" and "attributes" was converted against a
\* Product file that has both keys: the output has "attributes" only
C25_Witness ==
    /\ script = "convert"
    /\ position >= 1
    /\ replies # NoTree
    /\ DOMAIN disk.client[BatchFiles[position]].v = {"entity", "attributes"}
    /\ {"entity", "attributes"} \subseteq DOMAIN disk.product[BatchFiles[position]].v
    /\ DOMAIN disk.dd[BatchFiles[position]].v = {"attributes"}

(***************************************************************************)
(* Properties of the full report (SpecDiff)                                *)
(***************************************************************************)
\* the keys of a mapping that the differ looks at
Compared(d) == DOMAIN d.v \ {ExcludedKey}

Joined(path, key) == IF path = "" THEN key ELSE path \o "." \o key

\* the entries the report of two mappings is to hold
RECURSIVE Entries(_, _, _)
Entries(d1, d2, path) ==
    LET shared == Compared(d1) \cap Compared(d2)
        mappings == {k \in shared : IsDict(d1.v[k]) /\ IsDict(d2.v[k])}
        lists == {k \in shared : IsList(d1.v[k]) /\ IsList(d2.v[k])}
    IN  {Difference(Joined(path, k), "Missing in Client", NoValue, d2.v[k]) :
           k \in Compared(d2) \ Compared(d1)}
        \cup {Difference(Joined(path, k), "Missing in Product", d1.v[k], NoValue) :
                k \in Compared(d1) \ Compared(d2)}
        \cup {Difference(Joined(path, k), "Lists differ", d1.v[k], d2.v[k]) :
                k \in {l \in lists : ~PyEq(d1.v[l], d2.v[l])}}
        \cup {Difference(Joined(path, k), "vs", d1.v[k], d2.v[k]) :
                k \in {l \in shared \ (mappings \cup lists) : ~PyEq(d1.v[l], d2.v[l])}}
        \cup UNION {Entries(d1.v[k], d2.v[k], Joined(path, k)) : k \in mappings}

Reported == call.fn = "find_dict_differences" /\ IsDict(dict1) /\ IsDict(dict2)

C27_ReportAgrees ==
    /\ call.fn = "find_dict_differences" =>
          (call.result = <<>> <=> deep_compare_dicts(dict1, dict2))
    /\ call.fn = "get_common_attributes" =>
          \A attr_name \in DOMAIN call.result :
            /\ call.result[attr_name][3] = deep_compare_dicts(dict1, dict2)
            /\ ~call.result[attr_name][3] => call.result[attr_name][4] # <<>>

\* an empty report for two records that are not the same object: they differ
\* in the excluded key or as True differs from 1
C27_Witness ==
    /\ call.fn = "find_dict_differences"
    /\ call.result = <<>>
    /\ dict1 # dict2
    /\ IsDict(dict1)

(***************************************************************************)
(* Properties of move_attribute (SpecMove), continued                      *)
(***************************************************************************)
\* what a call with the arguments a keeps of the tree it was given
Keeps(before, after, a) ==
    /\ HasCategory(after, a.to_section, a.to_category)
    /\ a.attribute_name \in Range(AttrsOf(after, a.to_section, a.to_category))
    /\ \A p \in all_categories(before) :
          \A x \in Range(AttrsOf(before, p[1], p[2])) \ {a.attribute_name} :
            /\ HasCategory(after, p[1], p[2])
            /\ x \in Range(AttrsOf(after, p[1], p[2]))
    /\ \A p \in all_categories(before) \ {<<a.from_section, a.from_category>>,
                                            <<a.to_section, a.to_category>>} :
          /\ HasCategory(after, p[1], p[2])
          /\ AttrsOf(after, p[1], p[2]) = AttrsOf(before, p[1], p[2])
    /\ Names(before) \subseteq Names(after)

\* C28: after a call of move_attribute the attribute is in the destination
\* category, every other attribute is still in each category that held it,
\* the categories other than source and destination are as they were, and
\* no attribute name of the tree is lost.
C28_NeverLoses ==
    /\ once # NoTree => Keeps(tree, once, args)
    /\ twice # NoTree => Keeps(once, twice, args)

\* the attribute was moved out of a category that holds another attribute
\* too, into a category that did not exist
C28_Witness ==
    /\ once # NoTree
    /\ AtSource(tree, args)
    /\ ~SameLocation(args)
    /\ Len(AttrsOf(tree, args.from_section, args.from_category)) = 2
    /\ Unique(AttrsOf(tree, args.from_section, args.from_category))
    /\ ~HasCategory(tree, args.to_section, args.to_category)
    /\ Len(AttrsOf(once, args.from_section, args.from_category)) = 1
    /\ AttrsOf(once, args.to_section, args.to_category) = <<args.attribute_name>>

(***************************************************************************)
(* Properties of compare_and_remove_common_attributes (SpecBatch)          *)
(***************************************************************************)
\* the turn just taken converted a file whose Client and Product documents
\* both have attributes, Product at least one
Compared_attributes ==
    /\ Converted
    /\ "attributes" \in DOMAIN disk.client[BatchFiles[position']].v
    /\ disk.product[BatchFiles[position']] # NoFile
    /\ "attributes" \in DOMAIN disk.product[BatchFiles[position']].v
    /\ DOMAIN disk.product[BatchFiles[position']].v["attributes"].v # {}

\* the user said y to the removal of the exact match attr_name
SaidRemove(answers, attr_name) ==
    \/ answers.mode = "1" /\ answers.response["exact matches"] = "y"
    \/ answers.mode = "2" /\ answers.response[attr_name] = "y"

\* C29: whatever the user answers, the attributes returned are attributes
\* of the Client with their values, every attribute that Product does not
\* name is among them, and an attribute that is the same as Product's is
\* missing only if the user said y to its removal.
C29_RemovesOnlyCommon ==
    [][Compared_attributes =>
         LET client_file == BatchFiles[position']
             client_attrs == remove_vra_ccm_from_dashboard_identifier(
                                 disk.client[client_file].v["attributes"].v)
             product_attrs == disk.product[client_file].v["attributes"].v
             result == disk'.dd[client_file].v["attributes"].v
         IN  /\ DOMAIN result \subseteq DOMAIN client_attrs
             /\ \A a \in DOMAIN result : result[a] = client_attrs[a]
             /\ DOMAIN client_attrs \ DOMAIN product_attrs \subseteq DOMAIN result
             /\ \A a \in (DOMAIN client_attrs \cap DOMAIN product_attrs) \ DOMAIN result :
                   deep_compare_dicts(client_attrs[a], product_attrs[a])
                     => SaidRemove(replies', a)]_vars

\* the exact match host_name was removed on the user's y, one attribute at a
\* time, and os_version, which Product does not name, was kept
C29_Witness ==
    /\ script = "convert"
    /\ position = 1
    /\ replies # NoTree
    /\ replies.mode = "2"
    /\ replies.response["host_name"] = "y"
    /\ "attributes" \in DOMAIN disk.client[BatchFiles[1]].v
    /\ DOMAIN disk.client[BatchFiles[1]].v["attributes"].v = {"host_name", "os_version"}
    /\ "attributes" \in DOMAIN disk.product[BatchFiles[1]].v
    /\ DOMAIN disk.product[BatchFiles[1]].v["attributes"].v = {"host_name"}
    /\ DOMAIN disk.dd[BatchFiles[1]].v["attributes"].v = {"os_version"}

(***************************************************************************)
(* Properties of the session snapshot (SpecSession, SpecEdit)              *)
(***************************************************************************)
\* C30: the snapshot changes only when the session takes another file, and
\* is then the document loaded for that file; no edit, no revert and no
\* save changes it.
C30_SnapshotImmutable ==
    [][/\ current_file' = current_file => original_data' = original_data
       /\ current_file' # current_file =>
             original_data' = LoadData(modified_files, current_file', load_modified')]_vars

\* after edits, a revert and a save the tree was edited again: it differs
\* from the snapshot and from the saved version, and the snapshot is still
\* the original file
C30_Witness ==
    /\ last \in Mutating
    /\ current_file = "Server.json"
    /\ modified_files[current_file] # NoTree
    /\ modified_files[current_file] # data
    /\ modified_files[current_file] # original_data
    /\ data # original_data
    /\ original_data = OriginalFiles[current_file]

====
